---- MODULE Spec2Model ----
(***************************************************************************)
(* Port-scanning engine of netlab: the batch engine (portScan / scanPort   *)
(* of server/services/portScanner.ts) driven by the port-scanner router    *)
(* (POST /scan and the server-sent-events GET /stream).                    *)
(*                                                                         *)
(* One behaviour is one request.  The Node.js event loop is modelled at    *)
(* the grain of its phases: the synchronous start of a batch, the          *)
(* process.nextTick run that emits 'listening' on every freshly bound      *)
(* datagram socket, the timers phase of one timer list (timers of equal    *)
(* duration expire in creation order, back to back), and single I/O        *)
(* events.  Ports named by env (the first and/or last port of the scan)    *)
(* receive arbitrary network events one at a time; every other port        *)
(* follows the host profile: "silent" (nothing ever answers) or            *)
(* "refusing" (every probe is refused).                                    *)
(***************************************************************************)
EXTENDS Integers, Sequences, FiniteSets, TLC

VARIABLES
    req,        \* the HTTP request: shape and fields as they arrive
    env,        \* the network around the scan: host profile, live ports
    pc,         \* position of the route handler
    epc,        \* position of portScan: "none", "awaiting", "returned"
    opt,        \* the ScanOptions portScan was called with
    i,          \* loop index of the batch loop
    tcp,        \* live port -> state of the TCP half of scanPort(port)
    udp,        \* live port -> state of the UDP half of scanPort(port)
    grp,        \* batch index -> state of scanPort(port) for each port of the
                \* batch that is not live (they all run the same handlers in
                \* the same event-loop phases)
    resolved,   \* ports whose scanPort promise has been resolved
    results,    \* the ScanResult object: [TCP: port -> status, UDP: ...]
    scanned,    \* the route's progress counter
    total,      \* the route's ports.length
    events,     \* the events written to the response stream, in order
    clientOpen, \* the consumer still holds the event stream open
    wdata,      \* worker script: its workerData (ports, protocol)
    wpc,        \* worker script: position of scanPorts
    wprobe,     \* worker script: port -> state of scanPort(port)
    wresults,   \* worker script: the results object it posts
    form,       \* client: the values of the scan form
    query,      \* client: the query onSubmit sends to the stream route
    ports,      \* stream route: the ports array it hands to portScan
    xbody,      \* export route: the request body
    xres,       \* export route: the response
    popt,       \* worker pool: the ScanOptions its portScan was called with
    penv,       \* worker pool: the host profile the workers meet
    ppc,        \* worker pool: position of portScan
    plast,      \* worker pool: the worker that was started last
    prest,      \* worker pool: the workers started before it (they have
                \* slices of the same length and meet the same events)
    pacc,       \* worker pool: protocolResults of scanWithProtocol
    presults    \* worker pool: the results object of portScan

\* the state of the worker script
wvars == <<wdata, wpc, wprobe, wresults>>

\* the state of the port set construction (client form and stream route)
cvars == <<form, query, ports>>

\* the state of the export route
xvars == <<xbody, xres>>

\* the state of the worker pool
pvars == <<popt, penv, ppc, plast, prest, pacc, presults>>

\* the state of the router and the batch engine
mvars == <<req, env, pc, epc, opt, i, tcp, udp, grp, resolved, results,
           scanned, total, events, clientOpen>>

vars == <<req, env, pc, epc, opt, i, tcp, udp, grp, resolved, results,
          scanned, total, events, clientOpen, wdata, wpc, wprobe, wresults,
          form, query, ports, xbody, xres,
          popt, penv, ppc, plast, prest, pacc, presults>>

-----------------------------------------------------------------------------
(* Bounds of the model *)

\* how many ports of one scan receive arbitrary network events
MaxLive == 1
\* the largest end port of a valid range request
MaxPort == 101

(* Program constants *)

BATCH_SIZE == 50
MinPort == 1
MaxPortNumber == 65535
MinTimeout == 100
MaxTimeout == 10000
DefaultTimeout == 1000
maxRetries == 2

\* an absent query/body field (undefined; parseInt gives NaN for it)
Absent == -1

Protocols == {"TCP", "UDP", "BOTH"}
Statuses == {"Open", "Closed", "Filtered", "Open|Filtered", "Error"}
NoWrite == "-"

Min(a, b) == IF a <= b THEN a ELSE b
SeqMin(s) == CHOOSE x \in {s[k] : k \in 1..Len(s)} :
                \A y \in {s[k] : k \in 1..Len(s)} : x <= y
SeqMax(s) == CHOOSE x \in {s[k] : k \in 1..Len(s)} :
                \A y \in {s[k] : k \in 1..Len(s)} : x >= y

-----------------------------------------------------------------------------
(* Request validation: portScanSchema *)

\* addresses a datagram can come from, and strings a client can give as targetIp
TargetAddress == "192.0.2.10"
OtherAddress == "198.51.100.7"
TargetIps == {TargetAddress, "scanme.example"}

\* z.string().ip()
ZodIp(s) == s \in {TargetAddress, OtherAddress}

\* z.number().int().min(1).max(65535)
ZodPort(p) == p # Absent /\ p >= MinPort /\ p <= MaxPortNumber

\* .refine(([start, end]) => start <= end) (the first variant has no refine)
ZodRangeNoRefine(s, e) == ZodPort(s) /\ ZodPort(e)
ZodRange(s, e) == ZodPort(s) /\ ZodPort(e) /\ s <= e

\* z.enum(['TCP', 'UDP', 'BOTH'])
ZodProtocol(p) == p \in Protocols

\* z.number().int().min(100).max(10000).optional()
ZodTimeout(t) == t = Absent \/ (t >= MinTimeout /\ t <= MaxTimeout)

\* portScanSchema.parse succeeds
SchemaOk(r) ==
    /\ ZodIp(r.targetIp)
    /\ ZodRange(r.startPort, r.endPort)
    /\ ZodProtocol(r.protocol)
    /\ ZodTimeout(r.timeout)

-----------------------------------------------------------------------------
(* portScan: the port sequence and its batches *)

HasTcp(proto) == proto = "TCP" \/ proto = "BOTH"
HasUdp(proto) == proto = "UDP" \/ proto = "BOTH"

\* ports = Array.from({length: endPort - startPort + 1}, (_, i) => startPort + i)
PortsLength(o) ==
    IF o.endPort - o.startPort + 1 > 0 THEN o.endPort - o.startPort + 1 ELSE 0
PortAt(o, k) == o.startPort + k
AllPorts(o) == {PortAt(o, k) : k \in 0..(PortsLength(o) - 1)}

\* batch = ports.slice(i, i + BATCH_SIZE) (the first variant slices to the end)
BatchNoSlice(o, idx) == {PortAt(o, k) : k \in idx..(PortsLength(o) - 1)}
Batch(o, idx) ==
    {PortAt(o, k) : k \in idx..(Min(idx + BATCH_SIZE, PortsLength(o)) - 1)}

\* the loop index of the batch a port belongs to
BatchIndexOf(o, p) == ((p - o.startPort) \div BATCH_SIZE) * BATCH_SIZE

\* progress = Math.min(100, ((i + BATCH_SIZE) / ports.length) * 100), as the
\* fraction num/den (the first variant leaves out Math.min)
ProgressNoMin(o, idx) ==
    [num |-> 100 * (idx + BATCH_SIZE), den |-> PortsLength(o)]
Progress(o, idx) ==
    IF idx + BATCH_SIZE >= PortsLength(o)
    THEN [num |-> 100, den |-> 1]
    ELSE [num |-> 100 * (idx + BATCH_SIZE), den |-> PortsLength(o)]

-----------------------------------------------------------------------------
(* scanPort, TCP half *)

\* new net.Socket(), setTimeout(..., timeout), socket.connect(...)
TcpStart(proto) ==
    IF HasTcp(proto)
    THEN [sock |-> "open", isResolved |-> FALSE, timer |-> "armed",
          completed |-> proto = "UDP", first |-> "none"]
    ELSE [sock |-> "none", isResolved |-> FALSE, timer |-> "none",
          completed |-> proto = "UDP", first |-> "none"]

First(r, ev) == IF r.first = "none" THEN ev ELSE r.first

\* the setTimeout callback
TcpOnTimeout(t) ==
    IF ~t.isResolved
    THEN [p |-> [t EXCEPT !.isResolved = TRUE, !.sock = "destroyed",
                          !.timer = "fired", !.completed = TRUE,
                          !.first = First(t, "timeout")],
          w |-> "Filtered"]
    ELSE [p |-> [t EXCEPT !.timer = "fired"], w |-> NoWrite]

\* socket.on('connect')
TcpOnConnect(t) ==
    IF ~t.isResolved
    THEN [p |-> [t EXCEPT !.isResolved = TRUE, !.sock = "destroyed",
                          !.timer = "cleared", !.completed = TRUE,
                          !.first = First(t, "connect")],
          w |-> "Open"]
    ELSE [p |-> t, w |-> NoWrite]

\* error.message.includes('ECONNREFUSED') ? 'Closed' : 'Filtered' (the first
\* variant takes every error for a refusal)
TcpErrorStatusAlwaysClosed(code) == "Closed"
TcpErrorStatus(code) == IF code = "ECONNREFUSED" THEN "Closed" ELSE "Filtered"

\* socket.on('error')
TcpOnError(t, code) ==
    IF ~t.isResolved
    THEN [p |-> [t EXCEPT !.isResolved = TRUE, !.sock = "destroyed",
                          !.timer = "cleared", !.completed = TRUE,
                          !.first = First(t, code)],
          w |-> TcpErrorStatus(code)]
    ELSE [p |-> t, w |-> NoWrite]

-----------------------------------------------------------------------------
(* scanPort, UDP half *)

UdpIdle ==
    [sock |-> "none", binding |-> FALSE, bound |-> FALSE, isResolved |-> FALSE,
     responseReceived |-> FALSE, retryCount |-> 0, timer |-> "none",
     retry |-> "none", sent |-> 0, closes |-> 0,
     completed |-> FALSE, first |-> "none"]

\* the try block up to socket.bind(), and the catch block.  setup tells how far
\* the try block got: "ok", "throwCreate" (createSocket threw) or "throwBind"
\* (bind threw, after the handlers and the timeout timer were set up)
UdpStart(proto, setup) ==
    IF ~HasUdp(proto)
    THEN [p |-> [UdpIdle EXCEPT !.completed = proto = "TCP"], w |-> NoWrite]
    ELSE IF setup = "ok"
    THEN [p |-> [UdpIdle EXCEPT !.sock = "open", !.binding = TRUE,
                                !.timer = "armed"],
          w |-> NoWrite]
    ELSE IF setup = "throwBind"
    THEN [p |-> [UdpIdle EXCEPT !.sock = "open", !.timer = "armed",
                                !.completed = TRUE, !.first = "setup"],
          w |-> "Error"]
    ELSE [p |-> [UdpIdle EXCEPT !.completed = TRUE, !.first = "setup"],
          w |-> "Error"]

\* sendProbe
UdpSendProbe(u) ==
    IF u.retryCount < maxRetries /\ ~u.isResolved
    THEN [u EXCEPT !.sent = @ + 1, !.retryCount = @ + 1]
    ELSE u

\* socket.on('listening'): sendProbe(); setTimeout(sendProbe, timeout / 2)
UdpOnListening(u) ==
    [UdpSendProbe(u) EXCEPT !.binding = FALSE, !.bound = TRUE, !.retry = "armed"]

\* the setTimeout(sendProbe, timeout / 2) callback
UdpOnRetry(u) == [UdpSendProbe(u) EXCEPT !.retry = "fired"]

\* the socket.send callback
UdpOnSendCallback(u, err) ==
    IF err /\ ~u.isResolved
    THEN [p |-> [u EXCEPT !.isResolved = TRUE,
                          !.sock = "closed", !.closes = @ + 1,
                          !.completed = TRUE, !.first = First(u, "sendError")],
          w |-> "Error"]
    ELSE [p |-> u, w |-> NoWrite]

\* rinfo.address === targetIp (the first variant accepts a datagram of any
\* source)
FromTargetAnySource(address, targetIp) == TRUE
FromTarget(address, targetIp) == address = targetIp

\* socket.on('message')
UdpOnMessage(u, address, targetIp) ==
    IF ~u.isResolved /\ FromTarget(address, targetIp)
    THEN [p |-> [u EXCEPT !.responseReceived = TRUE, !.isResolved = TRUE,
                          !.sock = "closed", !.closes = @ + 1,
                          !.completed = TRUE, !.first = First(u, "message")],
          w |-> "Open"]
    ELSE [p |-> u, w |-> NoWrite]

\* switch (error.code)
UdpErrorStatus(code) ==
    CASE code = "ECONNREFUSED" -> "Closed"
      [] code = "EHOSTUNREACH" -> "Filtered"
      [] code = "EACCES" -> "Filtered"
      [] OTHER -> "Filtered"

\* socket.on('error')
UdpOnError(u, code) ==
    IF ~u.isResolved
    THEN [p |-> [u EXCEPT !.isResolved = TRUE, !.sock = "closed",
                          !.closes = @ + 1, !.binding = FALSE,
                          !.completed = TRUE, !.first = First(u, code)],
          w |-> UdpErrorStatus(code)]
    ELSE [p |-> u, w |-> NoWrite]

\* results.UDP[port] = responseReceived ? 'Open' : 'Open|Filtered' (the first
\* variant reports a silent port the way the TCP half does)
UdpTimeoutStatusFiltered(u) == "Filtered"
UdpTimeoutStatus(u) == IF u.responseReceived THEN "Open" ELSE "Open|Filtered"

\* the setTimeout(..., timeout) callback (the first variant leaves out
\* udpCompleted = true)
UdpOnTimeoutNoCompletion(u) ==
    IF ~u.isResolved
    THEN [p |-> [u EXCEPT !.isResolved = TRUE, !.sock = "closed",
                          !.closes = @ + 1, !.timer = "fired",
                          !.first = First(u, "timeout")],
          w |-> UdpTimeoutStatus(u)]
    ELSE [p |-> [u EXCEPT !.timer = "fired"], w |-> NoWrite]
UdpOnTimeout(u) ==
    IF ~u.isResolved
    THEN [p |-> [u EXCEPT !.isResolved = TRUE, !.sock = "closed",
                          !.closes = @ + 1, !.timer = "fired",
                          !.completed = TRUE, !.first = First(u, "timeout")],
          w |-> UdpTimeoutStatus(u)]
    ELSE [p |-> [u EXCEPT !.timer = "fired"], w |-> NoWrite]

\* checkCompletion: if (tcpCompleted && udpCompleted) resolve() (the first
\* variant resolves on either flag)
CheckCompletionEither(t, u) == t.completed \/ u.completed
CheckCompletion(t, u) == t.completed /\ u.completed

-----------------------------------------------------------------------------
(* The requests and the network *)

Shapes == {"scan", "stream"}
ProtocolInputs == Protocols \cup {"ICMP"}
TimeoutInputs == {Absent, 99, 100, 10000, 10001}
ValidRanges == {<<1, 1>>, <<1, MaxPort>>, <<65535, 65535>>}
InvalidRanges == {<<2, 1>>, <<0, 1>>, <<1, 65536>>, <<65536, 65536>>,
                  <<Absent, 1>>, <<1, Absent>>, <<MaxPort, 1>>}
\* the port groups "HTTP/HTTPS" and "File Transfer" of PORT_GROUPS
PortLists == {<<80, 443>>, <<20, 21, 22, 69>>}

\* requests by range: every range and protocol, and every timeout for one
\* of them
RangeRequests ==
    [shape : Shapes, targetIp : TargetIps,
     range : ValidRanges \cup InvalidRanges, portList : {<<>>},
     protocol : ProtocolInputs, timeout : {Absent}]
    \cup
    [shape : Shapes, targetIp : TargetIps,
     range : {<<1, 1>>, <<2, 1>>}, portList : {<<>>},
     protocol : {"TCP", "ICMP"}, timeout : TimeoutInputs]

\* requests by port list (the range fields are then ignored)
ListRequests ==
    [shape : {"stream"}, targetIp : TargetIps,
     range : {<<Absent, Absent>>}, portList : PortLists,
     protocol : ProtocolInputs, timeout : {Absent}]
    \cup
    [shape : {"stream"}, targetIp : TargetIps,
     range : {<<Absent, Absent>>, <<1, 1>>, <<2, 1>>},
     portList : {<<20, 21, 22, 69>>},
     protocol : {"TCP", "ICMP"}, timeout : {Absent, 99, 10001}]

Requests == RangeRequests \cup ListRequests

Fields(r) ==
    [targetIp |-> r.targetIp, startPort |-> r.range[1], endPort |-> r.range[2],
     protocol |-> r.protocol, timeout |-> r.timeout]

Profiles == {"silent", "refusing"}
Envs == {e \in [profile : Profiles, first : BOOLEAN, last : BOOLEAN] :
            (IF e.first THEN 1 ELSE 0) + (IF e.last THEN 1 ELSE 0) <= MaxLive}

Live(o) == (IF env.first THEN {o.startPort} ELSE {})
              \cup (IF env.last THEN {o.endPort} ELSE {})

\* the ports of a batch that follow the host profile
Rest(o, idx) == Batch(o, idx) \ Live(o)

Setups == {"ok", "throwCreate", "throwBind"}
TcpErrorCodes == {"ECONNREFUSED", "EHOSTUNREACH", "ETIMEDOUT"}
UdpErrorCodes == {"ECONNREFUSED", "EHOSTUNREACH", "EACCES", "EADDRINUSE"}
Addresses == {TargetAddress, OtherAddress}

EmptyMap == [q \in {} |-> NoWrite]

\* results.X = results.X || {}; results.X[port] = status, for every port whose
\* handler wrote a status (w: port -> the status written, or NoWrite)
Merge(map, w) ==
    [q \in DOMAIN map \cup {p \in DOMAIN w : w[p] # NoWrite} |->
        IF q \in DOMAIN w /\ w[q] # NoWrite THEN w[q] ELSE map[q]]


\* no form has been submitted: the form holds its defaultValues
NoQuery == [state |-> "none", targetIp |-> "", protocol |-> "", timeout |-> "",
            startPort |-> "", endPort |-> "", portList |-> <<>>]
ClientIdle ==
    /\ form = [targetIp |-> "", scanMode |-> "range", startPort |-> 1,
               endPort |-> 1024, selectedGroups |-> <<>>, protocol |-> "TCP",
               timeout |-> 1000]
    /\ query = NoQuery
    /\ ports = <<>>

\* no export has been requested
NoBody == [results |-> [TCP |-> EmptyMap, UDP |-> EmptyMap], has |-> {},
           format |-> "JSON"]
NoResponse == [status |-> 0, data |-> <<>>]
ExportIdle ==
    /\ xbody = NoBody
    /\ xres = NoResponse

\* a probe of the worker pool that has not been started
PoolNoProbe ==
    [sock |-> "none", responded |-> FALSE, timer |-> "none", sendCb |-> "none",
     closes |-> 0, threw |-> FALSE, result |-> NoWrite, first |-> "none"]
\* no worker
PoolNoWorker ==
    [state |-> "none", first |-> 0, count |-> 0, k |-> 0,
     probe |-> PoolNoProbe, old |-> <<>>, results |-> <<>>]
\* the worker pool's portScan has not been called
PoolIdle ==
    /\ popt = [startPort |-> 1, endPort |-> 0, protocol |-> ""]
    /\ penv = "silent"
    /\ ppc = "idle"
    /\ plast = PoolNoWorker
    /\ prest = PoolNoWorker
    /\ pacc = EmptyMap
    /\ presults = [TCP |-> EmptyMap, UDP |-> EmptyMap]

Init ==
    /\ req \in Requests
    /\ env \in Envs
    /\ pc = "idle"
    /\ epc = "none"
    /\ opt = [targetIp |-> "", startPort |-> 1, endPort |-> 0,
              protocol |-> "", timeout |-> 0, onProgress |-> FALSE]
    /\ i = 0
    /\ tcp = EmptyMap
    /\ udp = EmptyMap
    /\ grp = EmptyMap
    /\ resolved = {}
    /\ results = [TCP |-> EmptyMap, UDP |-> EmptyMap]
    /\ scanned = 0
    /\ total = 0
    /\ events = <<>>
    /\ clientOpen = TRUE
    /\ wdata = [ports |-> <<>>, protocol |-> "TCP"]
    /\ wpc = "idle"
    /\ wprobe = EmptyMap
    /\ wresults = EmptyMap
    /\ ClientIdle
    /\ ExportIdle
    /\ PoolIdle

-----------------------------------------------------------------------------
(* portScan: the synchronous part of one loop iteration,                    *)
(* batch.map(port => scanPort(port))                                        *)

\* the ports whose promise is resolved once the probes are in states t, u, g
Resolve(o, t, u, g) ==
    {p \in DOMAIN t : CheckCompletion(t[p], u[p])}
        \cup UNION {Rest(o, b) : b \in {c \in DOMAIN g :
                                          CheckCompletion(g[c].tcp, g[c].udp)}}

StartBatch(o, idx) ==
    \E setup \in [Live(o) \cap Batch(o, idx) ->
                    IF HasUdp(o.protocol) THEN Setups ELSE {"ok"}] :
        LET L == DOMAIN setup
            U(p) == UdpStart(o.protocol, setup[p])
            t2 == [q \in DOMAIN tcp \cup L |->
                     IF q \in L THEN TcpStart(o.protocol) ELSE tcp[q]]
            u2 == [q \in DOMAIN udp \cup L |->
                     IF q \in L THEN U(q).p ELSE udp[q]]
            G == IF Rest(o, idx) = {} THEN {} ELSE {idx}
            g2 == [b \in DOMAIN grp \cup G |->
                     IF b \in G
                     THEN [tcp |-> TcpStart(o.protocol),
                           udp |-> UdpStart(o.protocol, "ok").p]
                     ELSE grp[b]]
        IN  /\ tcp' = t2
            /\ udp' = u2
            /\ grp' = g2
            /\ results' = [results EXCEPT
                             !.UDP = Merge(@, [q \in L |-> U(q).w])]
            /\ resolved' = Resolve(o, t2, u2, g2)

\* a datagram socket whose bind() has not yet emitted 'listening'
ListenDue ==
    \/ \E p \in DOMAIN udp : udp[p].binding
    \/ \E b \in DOMAIN grp : grp[b].udp.binding

\* process.nextTick after the batch start: every bound socket emits 'listening'
ListenPhase ==
    /\ ListenDue
    /\ udp' = [p \in DOMAIN udp |->
                 IF udp[p].binding THEN UdpOnListening(udp[p]) ELSE udp[p]]
    /\ grp' = [b \in DOMAIN grp |->
                 IF grp[b].udp.binding
                 THEN [grp[b] EXCEPT !.udp = UdpOnListening(@)] ELSE grp[b]]
    /\ UNCHANGED <<pvars, cvars, xvars, wvars, req, env, pc, epc, opt, i, tcp, resolved, results,
                   scanned, total, events, clientOpen>>

\* the batches (by loop index) that hold an armed retry / timeout timer whose
\* callback still has something to do; the callback of a timer whose probe is
\* already resolved returns at once, and its expiry is not a step of its own
RetryDue(u) == u.retry = "armed" /\ ~u.isResolved
TcpTimerDue(t) == t.timer = "armed" /\ ~t.isResolved
UdpTimerDue(u) == u.timer = "armed" /\ ~u.isResolved
RetryArmed ==
    {BatchIndexOf(opt, p) : p \in {q \in DOMAIN udp : RetryDue(udp[q])}}
        \cup {b \in DOMAIN grp : RetryDue(grp[b].udp)}
TimerArmed ==
    {BatchIndexOf(opt, p) :
        p \in {q \in DOMAIN tcp : TcpTimerDue(tcp[q]) \/ UdpTimerDue(udp[q])}}
        \cup {b \in DOMAIN grp :
                TcpTimerDue(grp[b].tcp) \/ UdpTimerDue(grp[b].udp)}
\* a refusing host answers before any timer of the probe expires
RefusalDue(b) ==
    /\ env.profile = "refusing"
    /\ b \in DOMAIN grp
    /\ grp[b].tcp.sock = "open" \/ grp[b].udp.sock = "open"
Oldest(S) == CHOOSE b \in S : \A c \in S : b <= c

\* timers phase of the timeout / 2 list: the retry timers of the oldest batch
RetryPhase ==
    /\ ~ListenDue
    /\ RetryArmed # {}
    /\ LET b == Oldest(RetryArmed)
       IN  /\ ~RefusalDue(b)
           /\ udp' = [p \in DOMAIN udp |->
                        IF udp[p].retry = "armed" /\ BatchIndexOf(opt, p) = b
                        THEN UdpOnRetry(udp[p]) ELSE udp[p]]
           /\ grp' = [c \in DOMAIN grp |->
                        IF grp[c].udp.retry = "armed" /\ c = b
                        THEN [grp[c] EXCEPT !.udp = UdpOnRetry(@)] ELSE grp[c]]
    /\ UNCHANGED <<pvars, cvars, xvars, wvars, req, env, pc, epc, opt, i, tcp, resolved, results,
                   scanned, total, events, clientOpen>>

Keep(r) == [p |-> r, w |-> NoWrite]

\* the handler of event ev on the TCP half t of a probe
TcpHandle(ev, t) ==
    CASE ev.type = "timeout" -> IF t.timer = "armed" THEN TcpOnTimeout(t) ELSE Keep(t)
      [] ev.type = "refusal" ->
            IF t.sock = "open" THEN TcpOnError(t, "ECONNREFUSED") ELSE Keep(t)
      [] ev.type = "connect" -> TcpOnConnect(t)
      [] ev.type = "tcpError" -> TcpOnError(t, ev.code)
      [] OTHER -> Keep(t)

\* the handler of event ev on the UDP half u of a probe
UdpHandle(ev, u) ==
    CASE ev.type = "timeout" -> IF u.timer = "armed" THEN UdpOnTimeout(u) ELSE Keep(u)
      [] ev.type = "refusal" ->
            IF u.sock = "open" THEN UdpOnError(u, "ECONNREFUSED") ELSE Keep(u)
      [] ev.type = "message" -> UdpOnMessage(u, ev.address, opt.targetIp)
      [] ev.type = "udpError" -> UdpOnError(u, ev.code)
      [] ev.type = "sent" -> UdpOnSendCallback(u, ev.err)
      [] OTHER -> Keep(u)

\* event ev reaches the probes of the ports S (live ports) and of the batches
\* G: their handlers run, write their statuses and call checkCompletion
RunHandlers(S, G, ev) ==
    LET t2 == [p \in DOMAIN tcp |->
                 IF p \in S THEN TcpHandle(ev, tcp[p]).p ELSE tcp[p]]
        u2 == [p \in DOMAIN udp |->
                 IF p \in S THEN UdpHandle(ev, udp[p]).p ELSE udp[p]]
        g2 == [b \in DOMAIN grp |->
                 IF b \in G
                 THEN [tcp |-> TcpHandle(ev, grp[b].tcp).p,
                       udp |-> UdpHandle(ev, grp[b].udp).p]
                 ELSE grp[b]]
        R == UNION {Rest(opt, b) : b \in G}
        wt == [p \in S \cup R |->
                 IF p \in S THEN TcpHandle(ev, tcp[p]).w
                 ELSE TcpHandle(ev, grp[BatchIndexOf(opt, p)].tcp).w]
        wu == [p \in S \cup R |->
                 IF p \in S THEN UdpHandle(ev, udp[p]).w
                 ELSE UdpHandle(ev, grp[BatchIndexOf(opt, p)].udp).w]
    IN  /\ tcp' = t2
        /\ udp' = u2
        /\ grp' = g2
        /\ results' = [TCP |-> Merge(results.TCP, wt),
                       UDP |-> Merge(results.UDP, wu)]
        /\ resolved' = resolved \cup Resolve(opt, t2, u2, g2)

\* timers phase of the timeout list: the timeout timers of the oldest batch
TimerPhase ==
    /\ ~ListenDue
    /\ TimerArmed # {}
    /\ LET b == Oldest(TimerArmed)
       IN  /\ ~RefusalDue(b)
           /\ \A c \in RetryArmed : c > b
           /\ RunHandlers({p \in DOMAIN tcp : BatchIndexOf(opt, p) = b},
                          {b} \cap DOMAIN grp, [type |-> "timeout"])
    /\ UNCHANGED <<pvars, cvars, xvars, wvars, req, env, pc, epc, opt, i, scanned, total, events, clientOpen>>

\* the host refuses every probe of the batch in flight that is not a live port
PollRefusals ==
    /\ epc = "awaiting"
    /\ ~ListenDue
    /\ RefusalDue(i)
    /\ RunHandlers({}, {i}, [type |-> "refusal"])
    /\ UNCHANGED <<pvars, cvars, xvars, wvars, req, env, pc, epc, opt, i, scanned, total, events, clientOpen>>

-----------------------------------------------------------------------------
(* Single I/O events on the live ports *)

\* the connection is established
LiveTcpConnect ==
    \E p \in DOMAIN tcp :
        /\ ~ListenDue
        /\ tcp[p].sock = "open"
        /\ RunHandlers({p}, {}, [type |-> "connect"])
        /\ UNCHANGED <<pvars, cvars, xvars, wvars, req, env, pc, epc, opt, i, scanned, total, events,
                       clientOpen>>

\* the connection attempt fails
LiveTcpError ==
    \E p \in DOMAIN tcp, code \in TcpErrorCodes :
        /\ ~ListenDue
        /\ tcp[p].sock = "open"
        /\ RunHandlers({p}, {}, [type |-> "tcpError", code |-> code])
        /\ UNCHANGED <<pvars, cvars, xvars, wvars, req, env, pc, epc, opt, i, scanned, total, events,
                       clientOpen>>

\* a datagram arrives on the probe's socket
LiveUdpMessage ==
    \E p \in DOMAIN udp, address \in Addresses :
        /\ ~ListenDue
        /\ udp[p].sock = "open"
        /\ udp[p].bound
        /\ RunHandlers({p}, {}, [type |-> "message", address |-> address])
        /\ UNCHANGED <<pvars, cvars, xvars, wvars, req, env, pc, epc, opt, i, scanned, total, events,
                       clientOpen>>

\* the socket reports an error (a failed bind, or an ICMP error)
LiveUdpError ==
    \E p \in DOMAIN udp, code \in UdpErrorCodes :
        /\ udp[p].sock = "open"
        /\ udp[p].binding \/ (udp[p].bound /\ ~ListenDue)
        /\ RunHandlers({p}, {}, [type |-> "udpError", code |-> code])
        /\ UNCHANGED <<pvars, cvars, xvars, wvars, req, env, pc, epc, opt, i, scanned, total, events,
                       clientOpen>>

\* the callback of a send runs, with or without an error
LiveSendCallback ==
    \E p \in DOMAIN udp, err \in BOOLEAN :
        /\ ~ListenDue
        /\ udp[p].sent > 0
        /\ RunHandlers({p}, {}, [type |-> "sent", err |-> err])
        /\ UNCHANGED <<pvars, cvars, xvars, wvars, req, env, pc, epc, opt, i, scanned, total, events,
                       clientOpen>>

-----------------------------------------------------------------------------
(* The router *)

ScanningEvent(o, idx) ==
    [scanned |-> scanned + 1, total |-> total, currentPort |-> Progress(o, idx),
     status |-> "scanning"]

\* currentPort: ports[total - 1]
LastPort(r) ==
    IF r.portList # <<>> THEN r.portList[Len(r.portList)] ELSE r.range[2]

\* the terminal res.write (the first variant reports the progress counter)
CompletedEventCounter ==
    [scanned |-> scanned, total |-> total,
     currentPort |-> [num |-> LastPort(req), den |-> 1], status |-> "completed",
     results |-> results]
CompletedEvent ==
    [scanned |-> total, total |-> total,
     currentPort |-> [num |-> LastPort(req), den |-> 1], status |-> "completed",
     results |-> results]

\* the ScanOptions the route passes for request r with port range <<s, e>>
Options(r, s, e) ==
    [targetIp |-> r.targetIp, startPort |-> s, endPort |-> e,
     protocol |-> r.protocol,
     timeout |-> IF r.timeout = Absent THEN DefaultTimeout ELSE r.timeout,
     onProgress |-> r.shape = "stream"]

\* router.post('/scan') and router.get('/stream') up to the first await
Receive ==
    /\ pc = "idle"
    /\ IF req.shape = "stream" /\ req.portList # <<>>
       THEN \* well-known ports mode: no field is parsed
            LET o == Options(req, SeqMin(req.portList), SeqMax(req.portList))
            IN  /\ pc' = "scanning"
                /\ epc' = "awaiting"
                /\ opt' = o
                /\ total' = Len(req.portList)
                /\ StartBatch(o, 0)
       ELSE IF SchemaOk(Fields(req))
       THEN LET o == Options(req, req.range[1], req.range[2])
            IN  /\ pc' = "scanning"
                /\ epc' = "awaiting"
                /\ opt' = o
                /\ total' = IF req.shape = "stream" THEN PortsLength(o) ELSE 0
                /\ StartBatch(o, 0)
       ELSE \* ZodError: res.status(400)
            /\ pc' = "rejected"
            /\ UNCHANGED <<epc, opt, total, tcp, udp, grp, resolved, results>>
    /\ UNCHANGED <<pvars, cvars, xvars, wvars, req, env, i, scanned, events, clientOpen>>

\* portScan resumes after await Promise.all(...): the progress callback, then
\* the next batch or the return
BatchDone ==
    /\ epc = "awaiting"
    /\ ~ListenDue
    /\ Batch(opt, i) \subseteq resolved
    /\ IF opt.onProgress
       THEN /\ scanned' = scanned + 1
            /\ events' = Append(events, ScanningEvent(opt, i))
       ELSE UNCHANGED <<scanned, events>>
    /\ i' = i + BATCH_SIZE
    /\ IF i + BATCH_SIZE < PortsLength(opt)
       THEN /\ StartBatch(opt, i + BATCH_SIZE)
            /\ UNCHANGED epc
       ELSE /\ epc' = "returned"
            /\ UNCHANGED <<tcp, udp, grp, resolved, results>>
    /\ UNCHANGED <<pvars, cvars, xvars, wvars, req, env, pc, opt, total, clientOpen>>

\* the route resumes after await portScan(...): the terminal event and
\* res.end(), or res.json(results)
Respond ==
    /\ pc = "scanning"
    /\ epc = "returned"
    /\ pc' = "ended"
    /\ events' = IF req.shape = "stream" THEN Append(events, CompletedEvent)
                 ELSE events
    /\ UNCHANGED <<pvars, cvars, xvars, wvars, req, env, epc, opt, i, tcp, udp, grp, resolved, results,
                   scanned, total, clientOpen>>

\* the consumer stops the scan: eventSource.close()
ClientClose ==
    /\ req.shape = "stream"
    /\ pc = "scanning"
    /\ clientOpen
    /\ clientOpen' = FALSE
    /\ UNCHANGED <<pvars, cvars, xvars, wvars, req, env, pc, epc, opt, i, tcp, udp, grp, resolved, results,
                   scanned, total, events>>

Next ==
    \/ Receive
    \/ ListenPhase
    \/ RetryPhase
    \/ TimerPhase
    \/ PollRefusals
    \/ LiveTcpConnect
    \/ LiveTcpError
    \/ LiveUdpMessage
    \/ LiveUdpError
    \/ LiveSendCallback
    \/ BatchDone
    \/ Respond
    \/ ClientClose

Spec == Init /\ [][Next]_vars

\* the steps the program takes by itself: the steps of the event loop and the
\* answers of a refusing host; the rest of Next is what the network and the
\* consumer may or may not do
EngineStep ==
    \/ Receive
    \/ ListenPhase
    \/ RetryPhase
    \/ TimerPhase
    \/ PollRefusals
    \/ BatchDone
    \/ Respond

-----------------------------------------------------------------------------
(* Properties *)

\* the request reached portScan through portScanSchema
Validated == pc # "idle" /\ pc # "rejected" /\ req.portList = <<>>

\* scanPort has been called for no port
NoProbe == tcp = EmptyMap /\ udp = EmptyMap /\ grp = EmptyMap

\* the probes as (TCP half, UDP half, ports) triples
Probes ==
    {[t |-> tcp[p], u |-> udp[p], ports |-> {p}] : p \in DOMAIN tcp}
        \cup {[t |-> grp[b].tcp, u |-> grp[b].udp, ports |-> Rest(opt, b)] :
                b \in DOMAIN grp}

\* sockets created and not yet closed or destroyed
OpenSockets ==
    Cardinality(UNION {x.ports : x \in {y \in Probes : y.t.sock = "open"}})
        + Cardinality(UNION {x.ports : x \in {y \in Probes : y.u.sock = "open"}})

FullMap(o, m, wanted) ==
    IF wanted
    THEN DOMAIN m = AllPorts(o) /\ \A p \in DOMAIN m : m[p] \in Statuses
    ELSE DOMAIN m = {}

\* C1: when portScan returns, the result holds for each requested protocol
\* exactly one status entry for every port of the range, and no entry for a
\* protocol that was not requested.
C1_ResultCoversRange ==
    epc = "returned" =>
        /\ FullMap(opt, results.TCP, HasTcp(opt.protocol))
        /\ FullMap(opt, results.UDP, HasUdp(opt.protocol))

C1_Witness ==
    /\ epc = "returned"
    /\ opt.protocol = "BOTH"
    /\ PortsLength(opt) > 2 * BATCH_SIZE
    /\ DOMAIN results.TCP = AllPorts(opt)
    /\ DOMAIN results.UDP = AllPorts(opt)

\* C2: over the events of one stream, scanned never decreases from one event
\* to the next, and an event carries scanned = total only if it is the
\* terminal "completed" event.
C2_ScannedMonotoneTotalOnlyAtEnd ==
    \A k \in 1..Len(events) :
        /\ k > 1 => events[k - 1].scanned <= events[k].scanned
        /\ events[k].scanned = events[k].total => events[k].status = "completed"

\* the range of a request by range is invalid: start > end, or a bound
\* outside [1, 65535] (or missing)
BadRange(r) ==
    \/ r.range[1] \notin 1..65535
    \/ r.range[2] \notin 1..65535
    \/ r.range[1] > r.range[2]

\* C3: a request by range whose range is invalid is rejected by POST /scan and
\* by GET /stream alike, and scanPort is called for no port.
C3_InvalidRangeRejected ==
    (req.portList = <<>> /\ BadRange(req)) =>
        /\ pc \in {"idle", "rejected"}
        /\ epc = "none"
        /\ NoProbe

C3_Witness ==
    /\ pc = "rejected"
    /\ req.shape = "stream"
    /\ req.range = <<2, 1>>
    /\ req.targetIp = TargetAddress
    /\ req.protocol = "UDP"
    /\ req.timeout = Absent
    /\ NoProbe

\* a field of the request is invalid: the target is no IP literal, a port is
\* outside [1, 65535], the protocol is outside {TCP, UDP, BOTH}, or the timeout
\* is given and outside [100, 10000]
InvalidField(r) ==
    \/ r.targetIp \notin {TargetAddress, OtherAddress}
    \/ r.protocol \notin {"TCP", "UDP", "BOTH"}
    \/ r.timeout # Absent /\ r.timeout \notin 100..10000
    \/ IF r.portList = <<>>
       THEN r.range[1] \notin 1..65535 \/ r.range[2] \notin 1..65535
       ELSE \E k \in 1..Len(r.portList) : r.portList[k] \notin 1..65535

\* C4: a request with an invalid field is rejected before any socket is
\* opened, whichever of the three request shapes carries it (POST /scan,
\* GET /stream by range, GET /stream by port list): no socket is ever open
\* for such a request.
C4_InvalidFieldRejectedBeforeSockets ==
    InvalidField(req) => OpenSockets = 0

TcpExpected(ev) ==
    CASE ev = "connect" -> "Open"
      [] ev = "ECONNREFUSED" -> "Closed"
      [] OTHER -> "Filtered"

\* C5: the TCP status of a port is Open if the connection was established
\* first, Closed if the refusal (ECONNREFUSED) came first, Filtered if the
\* timeout or any other error came first; it is never Error or Open|Filtered.
C5_TcpClassification ==
    /\ \A x \in Probes : \A p \in x.ports :
          x.t.first # "none" =>
              /\ p \in DOMAIN results.TCP
              /\ results.TCP[p] = TcpExpected(x.t.first)
    /\ \A p \in DOMAIN results.TCP :
          results.TCP[p] \in {"Open", "Closed", "Filtered"}

C5_Witness ==
    /\ \E p \in DOMAIN tcp :
          tcp[p].first = "EHOSTUNREACH" /\ results.TCP[p] = "Filtered"
    /\ \E b \in DOMAIN grp :
          grp[b].tcp.first = "ECONNREFUSED"
              /\ \A p \in Rest(opt, b) : results.TCP[p] = "Closed"

\* C6: the UDP status of a port is Open if a datagram from the target was the
\* first event to resolve the probe, Closed if ECONNREFUSED was, and
\* Open|Filtered if the timeout fired with no datagram received.
C6_UdpClassification ==
    \A x \in Probes : \A p \in x.ports :
        /\ x.u.first = "message" => results.UDP[p] = "Open"
        /\ x.u.first = "ECONNREFUSED" => results.UDP[p] = "Closed"
        /\ x.u.first = "timeout" => results.UDP[p] = "Open|Filtered"
        /\ (x.u.timer = "fired" /\ ~x.u.responseReceived
               /\ x.u.first \in {"timeout", "setup"})
             => results.UDP[p] = "Open|Filtered"

C6_Witness ==
    /\ \E p \in DOMAIN udp :
          udp[p].first = "message" /\ results.UDP[p] = "Open"
    /\ \E b \in DOMAIN grp :
          grp[b].udp.first = "timeout"
              /\ \A p \in Rest(opt, b) : results.UDP[p] = "Open|Filtered"

\* the probe of a port is in flight: scanPort was called and its promise is
\* not resolved
InFlight(x) == ~CheckCompletion(x.t, x.u)

\* C7: every probe in flight belongs to the current batch: no probe of a
\* batch is started before every probe of the earlier batches has resolved.
C7_OneBatchInFlight ==
    \A x \in Probes : \A p \in x.ports :
        /\ BatchIndexOf(opt, p) <= i
        /\ InFlight(x) => (BatchIndexOf(opt, p) = i /\ p \notin resolved)
        /\ ~InFlight(x) => p \in resolved

C7_Witness ==
    /\ i = 2 * BATCH_SIZE
    /\ epc = "awaiting"
    /\ opt.protocol = "BOTH"
    /\ \E x \in Probes : InFlight(x) /\ x.t.completed /\ ~x.u.completed
    /\ \E b \in DOMAIN grp : b < i /\ ~InFlight([t |-> grp[b].tcp, u |-> grp[b].udp])

\* C8: at most BATCH_SIZE sockets are open at any time in a TCP or a UDP scan,
\* and at most 2 * BATCH_SIZE in a scan of both.
C8_SocketsBounded ==
    OpenSockets <= (IF opt.protocol = "BOTH" THEN 2 ELSE 1) * BATCH_SIZE

\* C9: a scan of a validated request terminates with the full result map:
\* a probe is resolved once its timeout has fired; whatever the probes meet
\* (refusal, timeout, socket error, failing socket setup), the scan is never
\* stuck before the response (a step of the program is due in every state
\* before it), and the response comes only after every batch has run and
\* every port has its entries.
C9_ValidatedScanTerminates ==
    Validated =>
        /\ \A x \in Probes :
              /\ (HasTcp(opt.protocol) /\ x.t.timer = "fired") => x.t.completed
              /\ (HasUdp(opt.protocol) /\ x.u.timer = "fired") => x.u.completed
        /\ pc = "ended" \/ ENABLED <<EngineStep>>_vars
        /\ pc = "ended" =>
              /\ epc = "returned"
              /\ i >= PortsLength(opt)
              /\ FullMap(opt, results.TCP, HasTcp(opt.protocol))
              /\ FullMap(opt, results.UDP, HasUdp(opt.protocol))

C9_Witness ==
    /\ Validated
    /\ pc = "ended"
    /\ PortsLength(opt) > 2 * BATCH_SIZE
    /\ \E p \in DOMAIN udp : udp[p].first = "setup" /\ results.UDP[p] = "Error"
    /\ \E b \in DOMAIN grp : grp[b].udp.first = "timeout"

\* C10: once the consumer has closed the stream, no further event is written
\* to it.
C10_NoEventAfterClose == [][~clientOpen => events' = events]_vars

-----------------------------------------------------------------------------
(* Port set, batches and progress *)

\* the ports scanPort has been called for
ProbedPorts == UNION {x.ports : x \in Probes}

\* C11: in well-known mode with the group HTTP/HTTPS alone (portList 80,443),
\* the ports that are probed are exactly 80 and 443, whatever the range
\* fields of the request hold.
C11_HttpGroupProbesOnlyItsPorts ==
    req.portList = <<80, 443>> =>
        /\ ProbedPorts \subseteq {80, 443}
        /\ epc = "returned" => ProbedPorts = {80, 443}

CeilDiv(n, d) == (n + d - 1) \div d

\* the loop indices of the batches of a sequence of PortsLength(o) ports
BatchIndices(o) ==
    {k * BATCH_SIZE : k \in 0..(CeilDiv(PortsLength(o), BATCH_SIZE) - 1)}

\* the "scanning" events written so far
ScanningEvents == SelectSeq(events, LAMBDA e : e.status = "scanning")

\* C12: a sequence of n ports is scanned in exactly ceil(n / 50) batches;
\* batch k is the k-th run of at most 50 consecutive ports, every port is in
\* exactly one batch, and one progress callback is made after each batch, in
\* the order of the batches.
C12_BatchesPartitionThePorts ==
    epc # "none" =>
        /\ ProbedPorts =
              UNION {Batch(opt, idx) :
                        idx \in {c \in BatchIndices(opt) :
                                    c <= i /\ i < PortsLength(opt)}
                                 \cup {c \in BatchIndices(opt) : c < i}}
        /\ epc = "awaiting" =>
              Batch(opt, i) =
                  (opt.startPort + i)..
                      Min(opt.startPort + i + BATCH_SIZE - 1, opt.endPort)
        /\ opt.onProgress =>
              /\ Len(ScanningEvents) = i \div BATCH_SIZE
              /\ \A k \in 1..Len(ScanningEvents) :
                    ScanningEvents[k].currentPort
                        = Progress(opt, (k - 1) * BATCH_SIZE)
        /\ epc = "returned" =>
              /\ i = BATCH_SIZE * CeilDiv(PortsLength(opt), BATCH_SIZE)
              /\ ProbedPorts = AllPorts(opt)
              /\ \A idx \in BatchIndices(opt) :
                    /\ Batch(opt, idx) =
                          (opt.startPort + idx)..
                              Min(opt.startPort + idx + BATCH_SIZE - 1, opt.endPort)
                    /\ Batch(opt, idx) # {}
                    /\ \A c \in BatchIndices(opt) :
                          c # idx => Batch(opt, c) \cap Batch(opt, idx) = {}

C12_Witness ==
    /\ epc = "returned"
    /\ PortsLength(opt) = 2 * BATCH_SIZE + 1
    /\ opt.onProgress
    /\ Len(ScanningEvents) = 3
    /\ DOMAIN grp = {0, BATCH_SIZE, 2 * BATCH_SIZE}

\* the size of the port set of the request
PortSetSize(r) ==
    IF r.portList # <<>> THEN Len(r.portList) ELSE r.range[2] - r.range[1] + 1

\* C13: the scanned field of the k-th progress event is the number of ports
\* probed so far, the sum of the sizes of the k batches completed, and its
\* total field is the size of the port set.
C13_ScannedCountsPortsProbed ==
    \A k \in 1..Len(ScanningEvents) :
        /\ ScanningEvents[k].scanned = Min(k * BATCH_SIZE, PortsLength(opt))
        /\ ScanningEvents[k].total = PortSetSize(req)

\* C14: a streaming scan that runs to completion writes exactly one
\* "completed" event; it is the last event of the stream, it carries
\* scanned = total and the result map portScan returned (an entry for every
\* port and requested protocol), and every event before it is a "scanning"
\* event.
C14_OneTerminalEvent ==
    /\ \A k \in 1..Len(events) :
          events[k].status = "completed" => (k = Len(events) /\ pc = "ended")
    /\ (pc = "ended" /\ req.shape = "stream") =>
          /\ Len(events) >= 1
          /\ events[Len(events)].status = "completed"
          /\ events[Len(events)].scanned = events[Len(events)].total
          /\ events[Len(events)].total = total
          /\ FullMap(opt, events[Len(events)].results.TCP, HasTcp(opt.protocol))
          /\ FullMap(opt, events[Len(events)].results.UDP, HasUdp(opt.protocol))
          /\ \A k \in 1..(Len(events) - 1) : events[k].status = "scanning"

C14_Witness ==
    /\ pc = "ended"
    /\ req.shape = "stream"
    /\ req.protocol = "BOTH"
    /\ Len(events) = 4
    /\ events[4].status = "completed"
    /\ DOMAIN events[4].results.UDP = AllPorts(opt)

\* a / b <= c / d, for fractions with positive denominators
FracLeq(x, y) == x.num * y.den <= y.num * x.den

\* C15: the percentage reported after the k-th batch is
\* 100 * (ports probed so far) / (number of ports); it never exceeds 100,
\* never decreases from one callback to the next, and is exactly 100 on the
\* callback of the last batch.
C15_PercentageOfPortsProbed ==
    LET n == PortsLength(opt)
        pct(k) == ScanningEvents[k].currentPort
    IN  /\ \A k \in 1..Len(ScanningEvents) :
              /\ pct(k).den > 0
              /\ pct(k).num * n = 100 * Min(k * BATCH_SIZE, n) * pct(k).den
              /\ FracLeq(pct(k), [num |-> 100, den |-> 1])
              /\ k > 1 => FracLeq(pct(k - 1), pct(k))
        /\ (epc = "returned" /\ opt.onProgress) =>
              /\ Len(ScanningEvents) >= 1
              /\ pct(Len(ScanningEvents)).num = 100 * pct(Len(ScanningEvents)).den

C15_Witness ==
    /\ epc = "returned"
    /\ PortsLength(opt) = 2 * BATCH_SIZE + 1
    /\ Len(ScanningEvents) = 3
    /\ ScanningEvents[1].currentPort = [num |-> 5000, den |-> 101]
    /\ ScanningEvents[2].currentPort = [num |-> 10000, den |-> 101]
    /\ ScanningEvents[3].currentPort = [num |-> 100, den |-> 1]

\* the highest port of the batch at loop index idx
HighestPort(o, idx) == Min(o.startPort + idx + BATCH_SIZE - 1, o.endPort)

\* C16: the currentPort field of the k-th "scanning" event is the highest
\* port number probed in the batch that has just completed.
C16_CurrentPortIsHighestOfBatch ==
    \A k \in 1..Len(ScanningEvents) :
        ScanningEvents[k].currentPort.num =
            HighestPort(opt, (k - 1) * BATCH_SIZE) * ScanningEvents[k].currentPort.den

-----------------------------------------------------------------------------
(* The worker script (scanPort and scanPorts of the worker thread): one     *)
(* worker scanning the ports of its workerData for one protocol              *)

WorkerPortLists == {<<80>>, <<443, 80>>}
WorkerDatas == [ports : WorkerPortLists, protocol : {"TCP", "UDP"}]
WorkerPorts(d) == {d.ports[k] : k \in 1..Len(d.ports)}

\* scanPort(port) up to socket.connect / socket.send
WorkerStart(proto) ==
    IF proto = "TCP"
    THEN [sock |-> "open", status |-> "Filtered", timer |-> "none",
          listeners |-> TRUE, sendCb |-> "none", result |-> NoWrite,
          closes |-> 0, threw |-> FALSE]
    ELSE [sock |-> "open", status |-> NoWrite, timer |-> "armed",
          listeners |-> TRUE, sendCb |-> "pending", result |-> NoWrite,
          closes |-> 0, threw |-> FALSE]

\* resolve(...): only the first call settles the promise
WorkerResolve(w, status) ==
    IF w.result = NoWrite THEN [w EXCEPT !.result = status] ELSE w

\* TCP: socket.on('connect')
WorkerTcpOnConnect(w) == [w EXCEPT !.status = "Open", !.sock = "destroyed"]

\* TCP: the status set by socket.on('error')
WorkerTcpErrorStatus(w, code) ==
    IF code = "ECONNREFUSED" THEN "Closed"
    ELSE IF code = "ETIMEDOUT" THEN "Filtered"
    ELSE w.status

\* TCP: socket.on('error'); the socket destroys itself after the error
WorkerTcpOnError(w, code) ==
    [w EXCEPT !.status = WorkerTcpErrorStatus(w, code), !.sock = "destroyed"]

\* TCP: socket.on('timeout')
WorkerTcpOnTimeout(w) == [w EXCEPT !.status = "Filtered", !.sock = "destroyed"]

\* TCP: socket.on('close')
WorkerTcpOnClose(w) == WorkerResolve([w EXCEPT !.sock = "closed"], w.status)

\* UDP: cleanup(): socket.close() throws on a socket that is already closed,
\* and then nothing after it runs
WorkerCleanup(w) ==
    IF w.sock = "closed"
    THEN [w EXCEPT !.closes = @ + 1, !.threw = TRUE]
    ELSE [w EXCEPT !.sock = "closed", !.closes = @ + 1, !.listeners = FALSE]

\* UDP: cleanup() and then resolve({port, status})
WorkerCleanupResolve(w, status) ==
    IF WorkerCleanup(w).threw THEN WorkerCleanup(w)
    ELSE WorkerResolve(WorkerCleanup(w), status)

\* UDP: the setTimeout callback
WorkerUdpOnTimeout(w) ==
    WorkerCleanupResolve([w EXCEPT !.timer = "fired"], "Open|Filtered")

\* UDP: switch (err.code) of socket.on('error')
WorkerUdpErrorStatus(code) ==
    CASE code = "ECONNREFUSED" -> "Closed"
      [] code = "EHOSTUNREACH" -> "Filtered"
      [] code = "EACCES" -> "Permission Denied"
      [] OTHER -> "Error"

\* UDP: socket.on('error')
WorkerUdpOnError(w, code) ==
    WorkerCleanupResolve(
        [w EXCEPT !.timer = IF @ = "armed" THEN "cleared" ELSE @],
        WorkerUdpErrorStatus(code))

\* UDP: the socket.send callback
WorkerUdpOnSend(w, err) ==
    IF err
    THEN WorkerCleanupResolve(
             [w EXCEPT !.sendCb = "done",
                       !.timer = IF @ = "armed" THEN "cleared" ELSE @],
             "Error")
    ELSE [w EXCEPT !.sendCb = "done"]

\* the worker thread starts: scanPorts maps scanPort over the batch (all the
\* ports of a worker with at most BATCH_SIZE ports)
WorkerRun ==
    /\ wpc = "idle"
    /\ wpc' = "awaiting"
    /\ wprobe' = [p \in WorkerPorts(wdata) |-> WorkerStart(wdata.protocol)]
    /\ UNCHANGED <<pvars, cvars, xvars, mvars, wdata, wresults>>

WorkerTcpConnect ==
    \E p \in DOMAIN wprobe :
        /\ wdata.protocol = "TCP"
        /\ wprobe[p].sock = "open"
        /\ wprobe' = [wprobe EXCEPT ![p] = WorkerTcpOnConnect(@)]
        /\ UNCHANGED <<pvars, cvars, xvars, mvars, wdata, wpc, wresults>>

WorkerTcpError ==
    \E p \in DOMAIN wprobe, code \in TcpErrorCodes :
        /\ wdata.protocol = "TCP"
        /\ wprobe[p].sock = "open"
        /\ wprobe' = [wprobe EXCEPT ![p] = WorkerTcpOnError(@, code)]
        /\ UNCHANGED <<pvars, cvars, xvars, mvars, wdata, wpc, wresults>>

WorkerTcpTimeout ==
    \E p \in DOMAIN wprobe :
        /\ wdata.protocol = "TCP"
        /\ wprobe[p].sock = "open"
        /\ wprobe' = [wprobe EXCEPT ![p] = WorkerTcpOnTimeout(@)]
        /\ UNCHANGED <<pvars, cvars, xvars, mvars, wdata, wpc, wresults>>

WorkerTcpClose ==
    \E p \in DOMAIN wprobe :
        /\ wdata.protocol = "TCP"
        /\ wprobe[p].sock = "destroyed"
        /\ wprobe' = [wprobe EXCEPT ![p] = WorkerTcpOnClose(@)]
        /\ UNCHANGED <<pvars, cvars, xvars, mvars, wdata, wpc, wresults>>

WorkerUdpTimeout ==
    \E p \in DOMAIN wprobe :
        /\ wdata.protocol = "UDP"
        /\ wprobe[p].timer = "armed"
        /\ ~wprobe[p].threw
        /\ wprobe' = [wprobe EXCEPT ![p] = WorkerUdpOnTimeout(@)]
        /\ UNCHANGED <<pvars, cvars, xvars, mvars, wdata, wpc, wresults>>

WorkerUdpError ==
    \E p \in DOMAIN wprobe, code \in UdpErrorCodes :
        /\ wdata.protocol = "UDP"
        /\ wprobe[p].sock = "open"
        /\ wprobe[p].listeners
        /\ wprobe' = [wprobe EXCEPT ![p] = WorkerUdpOnError(@, code)]
        /\ UNCHANGED <<pvars, cvars, xvars, mvars, wdata, wpc, wresults>>

WorkerUdpSend ==
    \E p \in DOMAIN wprobe, err \in BOOLEAN :
        /\ wdata.protocol = "UDP"
        /\ wprobe[p].sendCb = "pending"
        /\ ~wprobe[p].threw
        /\ wprobe' = [wprobe EXCEPT ![p] = WorkerUdpOnSend(@, err)]
        /\ UNCHANGED <<pvars, cvars, xvars, mvars, wdata, wpc, wresults>>

\* scanPorts after await Promise.all: results[result.port] = result.status,
\* then parentPort.postMessage
WorkerPost ==
    /\ wpc = "awaiting"
    /\ \A p \in DOMAIN wprobe : wprobe[p].result # NoWrite
    /\ \A p \in DOMAIN wprobe : ~wprobe[p].threw
    /\ wresults' = [p \in DOMAIN wprobe |-> wprobe[p].result]
    /\ wpc' = "posted"
    /\ UNCHANGED <<pvars, cvars, xvars, mvars, wdata, wprobe>>

WorkerInit ==
    /\ req = [shape |-> "scan", targetIp |-> TargetAddress, range |-> <<1, 1>>,
              portList |-> <<>>, protocol |-> "TCP", timeout |-> Absent]
    /\ env = [profile |-> "silent", first |-> FALSE, last |-> FALSE]
    /\ pc = "idle"
    /\ epc = "none"
    /\ opt = [targetIp |-> "", startPort |-> 1, endPort |-> 0,
              protocol |-> "", timeout |-> 0, onProgress |-> FALSE]
    /\ i = 0
    /\ tcp = EmptyMap
    /\ udp = EmptyMap
    /\ grp = EmptyMap
    /\ resolved = {}
    /\ results = [TCP |-> EmptyMap, UDP |-> EmptyMap]
    /\ scanned = 0
    /\ total = 0
    /\ events = <<>>
    /\ clientOpen = TRUE
    /\ wdata \in WorkerDatas
    /\ wpc = "idle"
    /\ wprobe = EmptyMap
    /\ wresults = EmptyMap
    /\ ClientIdle
    /\ ExportIdle
    /\ PoolIdle

WorkerNext ==
    \/ WorkerRun
    \/ WorkerTcpConnect
    \/ WorkerTcpError
    \/ WorkerTcpTimeout
    \/ WorkerTcpClose
    \/ WorkerUdpTimeout
    \/ WorkerUdpError
    \/ WorkerUdpSend
    \/ WorkerPost

WorkerSpec == WorkerInit /\ [][WorkerNext]_vars

-----------------------------------------------------------------------------
(* Statuses and export *)

\* C17: a UDP probe resolved by a transport error other than port-unreachable
\* (permission denied, host unreachable, another socket error, or an error
\* reported by the send operation) has status Filtered.
C17_UdpTransportErrorIsFiltered ==
    \A x \in Probes : \A p \in x.ports :
        x.u.first \in (UdpErrorCodes \ {"ECONNREFUSED"}) \cup {"sendError"} =>
            results.UDP[p] = "Filtered"

TcpStatuses == {"Open", "Closed", "Filtered"}

\* C18: every status recorded by a scanner implementation (the batch engine,
\* the worker script) is one of Open, Closed, Filtered, Open|Filtered, Error;
\* a TCP probe records only Open, Closed or Filtered.
C18_StatusVocabulary ==
    /\ \A p \in DOMAIN results.TCP : results.TCP[p] \in TcpStatuses
    /\ \A p \in DOMAIN results.UDP : results.UDP[p] \in Statuses
    /\ \A p \in DOMAIN wresults :
          /\ wresults[p] \in Statuses
          /\ wdata.protocol = "TCP" => wresults[p] \in TcpStatuses

-----------------------------------------------------------------------------
(* Export: exportResults and router.post('/export')                         *)
(* A text is the sequence of its pieces: "," and "\n" are pieces of their   *)
(* own, every other piece is a run of characters without either.            *)

\* the engine and the worker script are not running
EngineIdle ==
    /\ req = [shape |-> "scan", targetIp |-> TargetAddress, range |-> <<1, 1>>,
              portList |-> <<>>, protocol |-> "TCP", timeout |-> Absent]
    /\ env = [profile |-> "silent", first |-> FALSE, last |-> FALSE]
    /\ pc = "idle"
    /\ epc = "none"
    /\ opt = [targetIp |-> "", startPort |-> 1, endPort |-> 0,
              protocol |-> "", timeout |-> 0, onProgress |-> FALSE]
    /\ i = 0
    /\ tcp = EmptyMap
    /\ udp = EmptyMap
    /\ grp = EmptyMap
    /\ resolved = {}
    /\ results = [TCP |-> EmptyMap, UDP |-> EmptyMap]
    /\ scanned = 0
    /\ total = 0
    /\ events = <<>>
    /\ clientOpen = TRUE
WorkerIdle ==
    /\ wdata = [ports |-> <<>>, protocol |-> "TCP"]
    /\ wpc = "idle"
    /\ wprobe = EmptyMap
    /\ wresults = EmptyMap

\* Object.entries(map): integer keys come in ascending order
RECURSIVE Entries(_)
Entries(map) ==
    IF DOMAIN map = {} THEN <<>>
    ELSE LET p == CHOOSE x \in DOMAIN map : \A y \in DOMAIN map : x <= y
         IN  <<<<p, map[p]>>>>
                 \o Entries([q \in DOMAIN map \ {p} |-> map[q]])

\* csv += `${proto},${port},${status}\n` for each entry
RECURSIVE CsvLines(_, _)
CsvLines(proto, entries) ==
    IF entries = <<>> THEN <<>>
    ELSE <<proto, ",", ToString(entries[1][1]), ",", entries[1][2], "\n">>
             \o CsvLines(proto, Tail(entries))

CsvHeader == <<"Protocol", ",", "Port", ",", "Status", "\n">>

\* the CSV branch without its UDP part
ExportCsvTcpOnly(r, has) ==
    CsvHeader
        \o (IF "TCP" \in has THEN CsvLines("TCP", Entries(r.TCP)) ELSE <<>>)
\* the CSV branch of exportResults; has: the keys the results object holds
ExportCsv(r, has) ==
    CsvHeader
        \o (IF "TCP" \in has THEN CsvLines("TCP", Entries(r.TCP)) ELSE <<>>)
        \o (IF "UDP" \in has THEN CsvLines("UDP", Entries(r.UDP)) ELSE <<>>)

\* JSON.stringify of one port -> status object
RECURSIVE JsonMembers(_)
JsonMembers(entries) ==
    IF entries = <<>> THEN <<>>
    ELSE <<"\"", ToString(entries[1][1]), "\"", ":", "\"", entries[1][2], "\"">>
             \o (IF Len(entries) > 1 THEN <<",">> ELSE <<>>)
             \o JsonMembers(Tail(entries))
JsonObject(key, map) == <<"\"", key, "\"", ":", "{">> \o JsonMembers(Entries(map))
                            \o <<"}">>
\* the JSON branch of exportResults
ExportJson(r, has) ==
    <<"{">>
        \o (IF "TCP" \in has THEN JsonObject("TCP", r.TCP) ELSE <<>>)
        \o (IF has = {"TCP", "UDP"} THEN <<",">> ELSE <<>>)
        \o (IF "UDP" \in has THEN JsonObject("UDP", r.UDP) ELSE <<>>)
        \o <<"}">>

exportResults(r, has, format) ==
    IF format = "JSON" THEN ExportJson(r, has) ELSE ExportCsv(r, has)

\* exportSchema: format is 'JSON' or 'CSV'
ExportSchemaOk(b) == b.format \in {"JSON", "CSV"}

\* the ports and statuses of the result maps that are exported
ExportPorts == {80, 443}
ExportMaps(S) == UNION {[D -> S] : D \in SUBSET ExportPorts}
ExportFormats == {"JSON", "CSV", "XML"}
ExportBodies ==
    {b \in [results : [TCP : ExportMaps(TcpStatuses), UDP : ExportMaps(Statuses)],
            has : SUBSET {"TCP", "UDP"}, format : ExportFormats] :
        /\ "TCP" \notin b.has => b.results.TCP = EmptyMap
        /\ "UDP" \notin b.has => b.results.UDP = EmptyMap}

\* router.post('/export')
Export ==
    /\ xres.status = 0
    /\ xres' = IF ExportSchemaOk(xbody)
               THEN [status |-> 200,
                     data |-> exportResults(xbody.results, xbody.has,
                                            xbody.format)]
               ELSE [status |-> 400, data |-> <<>>]
    /\ UNCHANGED <<pvars, cvars, mvars, wvars, xbody>>

ExportInit ==
    /\ EngineIdle
    /\ WorkerIdle
    /\ ClientIdle
    /\ PoolIdle
    /\ xbody \in ExportBodies
    /\ xres = NoResponse

ExportNext == Export

ExportSpec == ExportInit /\ [][ExportNext]_vars

\* the rows of a text: the pieces before each "\n"
RECURSIVE CsvRows(_)
CsvRows(text) ==
    IF \A k \in 1..Len(text) : text[k] # "\n" THEN <<>>
    ELSE LET n == CHOOSE k \in 1..Len(text) :
                      text[k] = "\n" /\ \A j \in 1..(k - 1) : text[j] # "\n"
         IN  <<SubSeq(text, 1, n - 1)>> \o CsvRows(SubSeq(text, n + 1, Len(text)))
\* what follows the last "\n" of a text
RECURSIVE CsvRest(_)
CsvRest(text) ==
    IF \A k \in 1..Len(text) : text[k] # "\n" THEN text
    ELSE LET n == CHOOSE k \in 1..Len(text) :
                      text[k] = "\n" /\ \A j \in 1..(k - 1) : text[j] # "\n"
         IN  CsvRest(SubSeq(text, n + 1, Len(text)))
\* the cells of a row: the pieces between its commas
RECURSIVE CsvCells(_)
CsvCells(row) ==
    IF \A k \in 1..Len(row) : row[k] # "," THEN <<row>>
    ELSE LET n == CHOOSE k \in 1..Len(row) :
                      row[k] = "," /\ \A j \in 1..(k - 1) : row[j] # ","
         IN  <<SubSeq(row, 1, n - 1)>> \o CsvCells(SubSeq(row, n + 1, Len(row)))

\* the (protocol, port) entries of an exported body
ExportEntries(b) ==
    {<<"TCP", p>> : p \in DOMAIN b.results.TCP}
        \cup {<<"UDP", p>> : p \in DOMAIN b.results.UDP}

\* C19: the CSV export of a result map is the header row Protocol,Port,Status
\* followed by exactly one row per (protocol, port) entry of the map that
\* carries the entry's status: no other row, and only the header for an empty
\* map.
C19_CsvOneRowPerEntry ==
    (xres.status = 200 /\ xbody.format = "CSV") =>
        LET rows == CsvRows(xres.data)
            E == ExportEntries(xbody)
        IN  /\ CsvRest(xres.data) = <<>>
            /\ Len(rows) = 1 + Cardinality(E)
            /\ CsvCells(rows[1]) = <<<<"Protocol">>, <<"Port">>, <<"Status">>>>
            /\ \A e \in E :
                  \E k \in 2..Len(rows) :
                      /\ CsvCells(rows[k]) =
                             <<<<e[1]>>, <<ToString(e[2])>>,
                               <<xbody.results[e[1]][e[2]]>>>>
                      /\ \A j \in 2..Len(rows) :
                            (CsvCells(rows[j])[1] = <<e[1]>>
                                /\ CsvCells(rows[j])[2] = <<ToString(e[2])>>)
                                => j = k

\* a map with TCP and UDP entries has been exported as CSV
C19_Witness ==
    /\ xres.status = 200
    /\ xbody.format = "CSV"
    /\ DOMAIN xbody.results.TCP = {80, 443}
    /\ DOMAIN xbody.results.UDP = {80, 443}
    /\ xbody.results.UDP[80] = "Open|Filtered"
    /\ Len(CsvRows(xres.data)) = 5

\* an empty map has been exported as CSV: the header row only
C19_WitnessEmpty ==
    /\ xres.status = 200
    /\ xbody.format = "CSV"
    /\ ExportEntries(xbody) = {}
    /\ CsvRows(xres.data) = <<<<"Protocol", ",", "Port", ",", "Status">>>>

-----------------------------------------------------------------------------
(* The port set: onSubmit of the scan form and the stream route's ports     *)
(* A query field is a text; portList is the sequence of its pieces, with    *)
(* "," a piece of its own.                                                  *)

PORT_GROUPS ==
    <<[name |-> "HTTP/HTTPS", ports |-> <<80, 443>>],
      [name |-> "Email", ports |-> <<25, 587, 465, 110, 995, 143, 993>>],
      [name |-> "File Transfer", ports |-> <<20, 21, 22, 69>>],
      [name |-> "Database", ports |-> <<1433, 3306, 5432, 27017, 6379>>]>>

GroupNames == {PORT_GROUPS[k].name : k \in 1..Len(PORT_GROUPS)}

\* PORT_GROUPS.find(g => g.name === groupName)
FindGroup(groupName) ==
    PORT_GROUPS[CHOOSE k \in 1..Len(PORT_GROUPS) :
                    /\ PORT_GROUPS[k].name = groupName
                    /\ \A j \in 1..(k - 1) : PORT_GROUPS[j].name # groupName]

\* a Set<number> in insertion order: add(p) of each element of ps
RECURSIVE SetAddAll(_, _)
SetAddAll(set, ps) ==
    IF ps = <<>> THEN set
    ELSE SetAddAll(IF \E k \in 1..Len(set) : set[k] = ps[1]
                   THEN set ELSE Append(set, ps[1]),
                   Tail(ps))

\* selectedGroups.forEach(groupName => group.ports.forEach(p => add(p.port)));
\* Array.from(uniquePorts)
RECURSIVE UniquePortsFrom(_, _)
UniquePortsFrom(set, groups) ==
    IF groups = <<>> THEN set
    ELSE UniquePortsFrom(IF groups[1] \in GroupNames
                         THEN SetAddAll(set, FindGroup(groups[1]).ports)
                         ELSE set,
                         Tail(groups))
UniquePorts(groups) == UniquePortsFrom(<<>>, groups)

\* portList.join(',')
RECURSIVE Join(_)
Join(list) ==
    IF list = <<>> THEN <<>>
    ELSE IF Len(list) = 1 THEN <<ToString(list[1])>>
    ELSE <<ToString(list[1]), ",">> \o Join(Tail(list))

\* text.split(',')
RECURSIVE Split(_)
Split(text) ==
    IF \A k \in 1..Len(text) : text[k] # "," THEN <<text>>
    ELSE LET n == CHOOSE k \in 1..Len(text) :
                      text[k] = "," /\ \A j \in 1..(k - 1) : text[j] # ","
         IN  <<SubSeq(text, 1, n - 1)>> \o Split(SubSeq(text, n + 1, Len(text)))

\* the numbers whose decimal text occurs in a query
Numerals ==
    UNION {{PORT_GROUPS[k].ports[j] : j \in 1..Len(PORT_GROUPS[k].ports)} :
              k \in 1..Len(PORT_GROUPS)}
        \cup {0, 1, 2, MaxPort, 1000, 1024, MaxPortNumber}

\* parseInt(s) of one piece; Absent stands for NaN
ParseInt(s) ==
    IF \E n \in Numerals : ToString(n) = s
    THEN CHOOSE n \in Numerals : ToString(n) = s
    ELSE Absent
\* Number(s) of the pieces between two commas ('' gives 0)
Number(piece) ==
    IF piece = <<>> THEN 0
    ELSE IF Len(piece) = 1 THEN ParseInt(piece[1])
    ELSE Absent

\* portScannerSchema without the superRefine branch for the well-known mode
FormOkAnySelection(f) ==
    /\ ZodIp(f.targetIp)
    /\ ZodPort(f.startPort)
    /\ ZodPort(f.endPort)
    /\ ZodProtocol(f.protocol)
    /\ f.timeout >= MinTimeout /\ f.timeout <= MaxTimeout
    /\ f.scanMode = "range" => f.startPort <= f.endPort
\* portScannerSchema of the form, with its superRefine
FormOk(f) ==
    /\ ZodIp(f.targetIp)
    /\ ZodPort(f.startPort)
    /\ ZodPort(f.endPort)
    /\ ZodProtocol(f.protocol)
    /\ f.timeout >= MinTimeout /\ f.timeout <= MaxTimeout
    /\ IF f.scanMode = "range" THEN f.startPort <= f.endPort
       ELSE Len(f.selectedGroups) > 0

\* the sequences of distinct group names the checkboxes can produce
RECURSIVE Selections(_)
Selections(n) ==
    IF n = 0 THEN {<<>>}
    ELSE LET S == Selections(n - 1)
         IN  S \cup {Append(s, g) : s \in {t \in S : Len(t) = n - 1},
                                    g \in GroupNames}
GroupSelections ==
    {s \in Selections(Len(PORT_GROUPS)) :
        \A j, k \in 1..Len(s) : j # k => s[j] # s[k]}

\* the forms: by range, and by groups (the effect on selectedGroups has set
\* startPort and endPort to the least and greatest port of the selection)
Forms ==
    [targetIp : {TargetAddress}, scanMode : {"range"},
     startPort : {1, 2, MaxPortNumber}, endPort : {1, MaxPort, MaxPortNumber},
     selectedGroups : {<<>>}, protocol : {"TCP"}, timeout : {1000}]
    \cup
    {[targetIp |-> TargetAddress, scanMode |-> "well-known",
      startPort |-> IF s = <<>> THEN 1 ELSE SeqMin(UniquePorts(s)),
      endPort |-> IF s = <<>> THEN 1024 ELSE SeqMax(UniquePorts(s)),
      selectedGroups |-> s, protocol |-> "TCP", timeout |-> 1000] :
        s \in GroupSelections}

\* onSubmit: the query parameters of the EventSource URL (an absent parameter
\* is the empty text)
OnSubmit(f) ==
    [state |-> "sent", targetIp |-> f.targetIp, protocol |-> f.protocol,
     timeout |-> ToString(f.timeout),
     startPort |-> IF f.scanMode = "range" THEN ToString(f.startPort) ELSE "",
     endPort |-> IF f.scanMode = "range" THEN ToString(f.endPort) ELSE "",
     portList |-> IF f.scanMode = "range" THEN <<>>
                  ELSE Join(UniquePorts(f.selectedGroups))]

\* form.handleSubmit(onSubmit): the resolver, then onSubmit
Submit ==
    /\ query.state = "none"
    /\ query' = IF FormOk(form) THEN OnSubmit(form)
                ELSE [query EXCEPT !.state = "invalid"]
    /\ UNCHANGED <<pvars, mvars, wvars, xvars, form, ports>>

\* router.get('/stream') up to the call of portScan: ports and portRange
StreamPorts ==
    /\ query.state = "sent"
    /\ IF query.portList # <<>>
       THEN \* well-known ports mode
            /\ ports' = [k \in 1..Len(Split(query.portList)) |->
                            Number(Split(query.portList)[k])]
            /\ query' = [query EXCEPT !.state = "scanning"]
       ELSE IF SchemaOk([targetIp |-> query.targetIp,
                         startPort |-> ParseInt(query.startPort),
                         endPort |-> ParseInt(query.endPort),
                         protocol |-> query.protocol,
                         timeout |-> IF query.timeout = "" THEN Absent
                                     ELSE ParseInt(query.timeout)])
       THEN /\ ports' = [k \in 1..(ParseInt(query.endPort)
                                      - ParseInt(query.startPort) + 1) |->
                            ParseInt(query.startPort) + k - 1]
            /\ query' = [query EXCEPT !.state = "scanning"]
       ELSE /\ query' = [query EXCEPT !.state = "rejected"]
            /\ UNCHANGED ports
    /\ UNCHANGED <<pvars, mvars, wvars, xvars, form>>

\* queries of the well-known shape (portList, no range field) that are sent
\* to the route without the form
DirectQueries ==
    [state : {"sent"}, targetIp : {TargetAddress}, protocol : Protocols,
     timeout : {"", "1000"}, startPort : {""}, endPort : {""},
     portList : {<<>>, <<"80">>}]

ClientInit ==
    /\ EngineIdle
    /\ WorkerIdle
    /\ ExportIdle
    /\ PoolIdle
    /\ \/ form \in Forms /\ query = NoQuery
       \/ /\ form = [targetIp |-> "", scanMode |-> "range", startPort |-> 1,
                      endPort |-> 1024, selectedGroups |-> <<>>,
                      protocol |-> "TCP", timeout |-> 1000]
          /\ query \in DirectQueries
    /\ ports = <<>>

ClientNext ==
    \/ Submit
    \/ StreamPorts

ClientSpec == ClientInit /\ [][ClientNext]_vars

\* C20: the ports array the stream route hands to portScan is in ascending
\* order and has no duplicate, for a form by range and for a form by any
\* selection of port groups.
C20_PortsAscendingDistinct ==
    query.state = "scanning" =>
        \A j, k \in 1..Len(ports) : j < k => ports[j] < ports[k]

-----------------------------------------------------------------------------
(* Rejection of an empty port set *)

\* the query has the well-known shape and its port list is empty
EmptyPortList(q) == q.portList = <<>> /\ q.startPort = "" /\ q.endPort = ""

\* C21: a well-known-mode request that resolves to no port is rejected with a
\* validation error and portScan is never called for it: a form without a
\* selected group is refused by the form's schema and sends no query, and a
\* query of the well-known shape with an empty port list is refused by the
\* route, which builds no ports array.
C21_EmptyPortSetRejected ==
    /\ (form.scanMode = "well-known" /\ form.selectedGroups = <<>>) =>
          query.state \in {"none", "invalid"} /\ ports = <<>>
    /\ (query.state # "none" /\ EmptyPortList(query)) =>
          query.state \in {"invalid", "sent", "rejected"} /\ ports = <<>>

\* the route has refused a query with an empty port list
C21_Witness ==
    /\ EmptyPortList(query)
    /\ query.state = "rejected"

\* the form's schema has refused a form without a selected group
C21_WitnessForm ==
    /\ form.scanMode = "well-known"
    /\ form.selectedGroups = <<>>
    /\ query.state = "invalid"

-----------------------------------------------------------------------------
(* Probes: one status, one socket, one attempt *)

\* C22: the status of a (port, protocol) pair is written once: a status that
\* is in the result map is still there, unchanged, after every step.
C22_StatusWrittenOnce ==
    [][\A proto \in {"TCP", "UDP"} : \A p \in DOMAIN results[proto] :
           /\ p \in DOMAIN results'[proto]
           /\ results'[proto][p] = results[proto][p]]_vars

\* C23: a probe that has resolved has no open socket, and no probe socket is
\* open once portScan has returned.
C23_SocketsReleased ==
    /\ \A x \in Probes :
          (x.ports # {} /\ CheckCompletion(x.t, x.u)) =>
              x.t.sock # "open" /\ x.u.sock # "open"
    /\ epc = "returned" => OpenSockets = 0

\* C24: a probe makes a single attempt: the UDP probe of a port sends at most
\* one datagram during the scan.
C24_SingleAttempt ==
    \A x \in Probes : x.ports # {} => x.u.sent <= 1

\* the (protocol, port) entries a step writes or overwrites
Written(proto) ==
    {p \in DOMAIN results'[proto] :
        p \notin DOMAIN results[proto] \/ results'[proto][p] # results[proto][p]}

\* C25: every write to the result map is made by a probe of the batch that is
\* being awaited, none by a probe of a completed batch or after portScan has
\* returned; and when the loop moves on after a batch, the ports in the map
\* of each requested protocol are exactly the ports of the batches so far.
C25_WritesByAwaitedBatch ==
    [][/\ \A proto \in {"TCP", "UDP"} :
             Written(proto) # {} =>
                 epc' = "awaiting" /\ Written(proto) \subseteq Batch(opt', i')
       /\ (epc = "awaiting" /\ i' # i) =>
             /\ HasTcp(opt.protocol) =>
                   DOMAIN results.TCP =
                       {PortAt(opt, k) : k \in 0..(Min(i', PortsLength(opt)) - 1)}
             /\ HasUdp(opt.protocol) =>
                   DOMAIN results.UDP =
                       {PortAt(opt, k) : k \in 0..(Min(i', PortsLength(opt)) - 1)}
      ]_vars

-----------------------------------------------------------------------------
(* The worker pool: portScan of port-scanner.ts and its inline worker.      *)
(* The worker started last receives arbitrary events; the workers before it *)
(* have slices of the same length and all meet the host profile.            *)

\* the largest number of ports of a pool scan
MaxPoolPorts == 12
\* Math.min(10, ports.length): at most this many workers
MaxWorkers == 10

\* ports = Array.from({length: endPort - startPort + 1}, (_, i) => startPort + i)
PoolPortsSeq(o) == [k \in 1..(o.endPort - o.startPort + 1) |-> o.startPort + k - 1]

\* the pool with one worker more than the code allows
numWorkersOneMore(n) == Min(MaxWorkers + 1, n)
numWorkers(n) == Min(MaxWorkers, n)
\* Math.ceil(ports.length / numWorkers), without rounding up
portsPerWorkerFloor(n) == n \div numWorkers(n)
portsPerWorker(n) == CeilDiv(n, numWorkers(n))

\* s.slice(a, b)
Slice(s, a, b) == SubSeq(s, a + 1, Min(b, Len(s)))

\* workerPorts = ports.slice(start, start + portsPerWorker), start = i * portsPerWorker
workerPorts(o, w) ==
    LET n == Len(PoolPortsSeq(o))
    IN  Slice(PoolPortsSeq(o), w * portsPerWorker(n),
              w * portsPerWorker(n) + portsPerWorker(n))

\* the loop indices for which a worker is created (an empty slice is skipped)
Started(o) ==
    {w \in 0..(numWorkers(Len(PoolPortsSeq(o))) - 1) : workerPorts(o, w) # <<>>}
LastStarted(o) == CHOOSE w \in Started(o) : \A v \in Started(o) : v <= w

\* scanTCPPort / scanUDPPort up to socket.connect / socket.send
PoolProbeStart(proto) ==
    IF proto = "TCP"
    THEN [PoolNoProbe EXCEPT !.sock = "open"]
    ELSE [PoolNoProbe EXCEPT !.sock = "open", !.timer = "armed",
                             !.sendCb = "pending"]

\* resolve(status): only the first call settles the promise
PoolResolve(q, status) ==
    IF q.result = NoWrite THEN [q EXCEPT !.result = status] ELSE q

\* the event whose handler runs first on a probe (kept for the properties)
PoolSaw(q, ev) == [q EXCEPT !.first = First(q, ev)]

\* scanTCPPort: socket.on('connect'), socket.on('timeout'), socket.on('error')
PoolTcpOnConnect(q) ==
    PoolResolve(PoolSaw([q EXCEPT !.sock = "destroyed"], "connect"), "Open")
PoolTcpOnTimeout(q) ==
    PoolResolve(PoolSaw([q EXCEPT !.sock = "destroyed"], "timeout"), "Closed")
PoolTcpOnError(q, code) ==
    PoolResolve(PoolSaw([q EXCEPT !.sock = "destroyed"], code), "Closed")

\* scanUDPPort: socket.close() and resolve(status); close() throws on a socket
\* that is closed already, and then the resolve after it is not reached
PoolCloseResolve(q, status) ==
    IF q.sock = "closed"
    THEN [q EXCEPT !.closes = @ + 1, !.threw = TRUE]
    ELSE PoolResolve([q EXCEPT !.sock = "closed", !.closes = @ + 1], status)

\* scanUDPPort: socket.on('message')
PoolUdpOnMessage(q) ==
    PoolCloseResolve(PoolSaw([q EXCEPT !.responded = TRUE], "message"), "Open")
\* scanUDPPort: socket.on('error')
PoolUdpOnError(q, code) == PoolCloseResolve(PoolSaw(q, code), "Closed")
\* scanUDPPort: the setTimeout callback
PoolUdpOnTimer(q) ==
    IF ~q.responded
    THEN PoolCloseResolve(PoolSaw([q EXCEPT !.timer = "fired"], "timeout"),
                          "Closed")
    ELSE [q EXCEPT !.timer = "fired"]
\* scanUDPPort: the socket.send callback
PoolUdpOnSend(q, err) ==
    IF err
    THEN PoolCloseResolve(PoolSaw([q EXCEPT !.sendCb = "done"], "sendError"),
                          "Closed")
    ELSE [q EXCEPT !.sendCb = "done"]

\* a callback of the probe is still to come
PoolPending(q) == q.timer = "armed" \/ q.sendCb = "pending"

\* the probe stays on the worker's list: a callback is to come, or one threw
PoolKept(q) == PoolPending(q) \/ q.threw

\* the probes of a worker whose callbacks can still run, oldest first
PoolProbesOf(W) == W.old \o <<W.probe>>

\* probe number idx of PoolProbesOf(W) becomes q after one of its callbacks; an
\* exception thrown by the callback ends the worker
PoolAfter(W, idx, q) ==
    LET all == [PoolProbesOf(W) EXCEPT ![idx] = q]
        keep == SelectSeq(SubSeq(all, 1, Len(W.old)), PoolKept)
    IN  [W EXCEPT !.old = keep, !.probe = all[Len(all)],
                  !.state = IF q.threw THEN "crashed" ELSE @]

\* the oldest probe of W that has its timer armed / its send callback pending
PoolTimerAt(W) ==
    CHOOSE idx \in 1..Len(PoolProbesOf(W)) :
        /\ PoolProbesOf(W)[idx].timer = "armed"
        /\ \A j \in 1..(idx - 1) : PoolProbesOf(W)[j].timer # "armed"
PoolSendAt(W) ==
    CHOOSE idx \in 1..Len(PoolProbesOf(W)) :
        /\ PoolProbesOf(W)[idx].sendCb = "pending"
        /\ \A j \in 1..(idx - 1) : PoolProbesOf(W)[j].sendCb # "pending"
PoolTimerDue(W) == \E idx \in 1..Len(PoolProbesOf(W)) :
                       PoolProbesOf(W)[idx].timer = "armed"
PoolSendDue(W) == \E idx \in 1..Len(PoolProbesOf(W)) :
                      PoolProbesOf(W)[idx].sendCb = "pending"

PoolFireTimer(W) ==
    PoolAfter(W, PoolTimerAt(W), PoolUdpOnTimer(PoolProbesOf(W)[PoolTimerAt(W)]))
PoolFireSend(W, err) ==
    PoolAfter(W, PoolSendAt(W), PoolUdpOnSend(PoolProbesOf(W)[PoolSendAt(W)], err))

\* the workers a record stands for, and the ports of all of them
PoolWorkersOf(W) == W.first..(W.first + W.count - 1)

\* workerScan after await scanFn(...): results[port] = status, then the next
\* port of the loop, or parentPort.postMessage(results)
PoolContinue(W, o, proto) ==
    LET rs == Append(W.results, W.probe.result)
        od == IF PoolPending(W.probe) THEN Append(W.old, W.probe) ELSE W.old
    IN  IF W.k < Len(workerPorts(o, W.first))
        THEN [W EXCEPT !.k = @ + 1, !.probe = PoolProbeStart(proto),
                       !.old = od, !.results = rs]
        ELSE [W EXCEPT !.state = "posted", !.probe = PoolNoProbe,
                       !.old = od, !.results = rs]

\* worker.on('message'): Object.assign(protocolResults, workerResults), for
\* each worker of the record
PoolAssign(acc, W, o) ==
    LET P == UNION {{workerPorts(o, w)[m] : m \in 1..Len(workerPorts(o, w))} :
                       w \in PoolWorkersOf(W)}
        at(p) == CHOOSE m \in 1..Len(W.results) :
                     \E w \in PoolWorkersOf(W) :
                         m <= Len(workerPorts(o, w)) /\ workerPorts(o, w)[m] = p
    IN  [p \in DOMAIN acc \cup P |-> IF p \in P THEN W.results[at(p)] ELSE acc[p]]

\* scanWithProtocol(proto) up to await Promise.all: the workers are created
PoolRecord(first, count, proto) ==
    [state |-> "running", first |-> first, count |-> count, k |-> 1,
     probe |-> PoolProbeStart(proto), old |-> <<>>, results |-> <<>>]
scanWithProtocol(o, proto) ==
    /\ plast' = PoolRecord(LastStarted(o), 1, proto)
    /\ prest' = IF Cardinality(Started(o)) > 1
                THEN PoolRecord(0, Cardinality(Started(o)) - 1, proto)
                ELSE PoolNoWorker
    /\ pacc' = EmptyMap

PoolRunning == ppc = "TCP" \/ ppc = "UDP"

\* portScan is called
PoolCall ==
    /\ ppc = "idle"
    /\ ppc' = IF HasTcp(popt.protocol) THEN "TCP" ELSE "UDP"
    /\ scanWithProtocol(popt, IF HasTcp(popt.protocol) THEN "TCP" ELSE "UDP")
    /\ UNCHANGED <<mvars, wvars, cvars, xvars, popt, penv, presults>>

\* events of the probe in flight in the worker started last
PoolTcpConnect ==
    /\ ppc = "TCP" /\ plast.state = "running" /\ plast.probe.sock = "open"
    /\ plast' = [plast EXCEPT !.probe = PoolTcpOnConnect(@)]
    /\ UNCHANGED <<mvars, wvars, cvars, xvars, popt, penv, ppc, prest, pacc,
                   presults>>
PoolTcpTimeout ==
    /\ ppc = "TCP" /\ plast.state = "running" /\ plast.probe.sock = "open"
    /\ plast' = [plast EXCEPT !.probe = PoolTcpOnTimeout(@)]
    /\ UNCHANGED <<mvars, wvars, cvars, xvars, popt, penv, ppc, prest, pacc,
                   presults>>
PoolTcpError ==
    \E code \in TcpErrorCodes :
        /\ ppc = "TCP" /\ plast.state = "running" /\ plast.probe.sock = "open"
        /\ plast' = [plast EXCEPT !.probe = PoolTcpOnError(@, code)]
        /\ UNCHANGED <<mvars, wvars, cvars, xvars, popt, penv, ppc, prest,
                       pacc, presults>>
PoolUdpMessage ==
    /\ ppc = "UDP" /\ plast.state = "running" /\ plast.probe.sock = "open"
    /\ plast' = PoolAfter(plast, Len(PoolProbesOf(plast)),
                          PoolUdpOnMessage(plast.probe))
    /\ UNCHANGED <<mvars, wvars, cvars, xvars, popt, penv, ppc, prest, pacc,
                   presults>>
PoolUdpError ==
    \E code \in UdpErrorCodes :
        /\ ppc = "UDP" /\ plast.state = "running" /\ plast.probe.sock = "open"
        /\ plast' = PoolAfter(plast, Len(PoolProbesOf(plast)),
                              PoolUdpOnError(plast.probe, code))
        /\ UNCHANGED <<mvars, wvars, cvars, xvars, popt, penv, ppc, prest,
                       pacc, presults>>
\* the oldest timer of the worker expires (also the timer of a probe that has
\* resolved: the worker thread lives until its timers have run)
PoolUdpTimer ==
    /\ ppc = "UDP" /\ plast.state \in {"running", "posted"}
    /\ PoolTimerDue(plast)
    /\ plast' = PoolFireTimer(plast)
    /\ UNCHANGED <<mvars, wvars, cvars, xvars, popt, penv, ppc, prest, pacc,
                   presults>>
PoolUdpSend ==
    \E err \in BOOLEAN :
        /\ ppc = "UDP" /\ plast.state \in {"running", "posted"}
        /\ PoolSendDue(plast)
        /\ plast' = PoolFireSend(plast, err)
        /\ UNCHANGED <<mvars, wvars, cvars, xvars, popt, penv, ppc, prest,
                       pacc, presults>>

\* the worker started last goes on after a probe has resolved
PoolLastContinue ==
    /\ PoolRunning /\ plast.state = "running"
    /\ plast.probe.result # NoWrite
    /\ plast' = PoolContinue(plast, popt, ppc)
    /\ pacc' = IF plast'.state = "posted" THEN PoolAssign(pacc, plast', popt)
               ELSE pacc
    /\ UNCHANGED <<mvars, wvars, cvars, xvars, popt, penv, ppc, prest,
                   presults>>

\* a worker thread that has posted and has no callback left exits
PoolLastExit ==
    /\ PoolRunning /\ plast.state = "posted" /\ plast.old = <<>>
    /\ plast' = [plast EXCEPT !.state = "exited"]
    /\ UNCHANGED <<mvars, wvars, cvars, xvars, popt, penv, ppc, prest, pacc,
                   presults>>

\* the next step of the workers started before: the send callback (without
\* error), then what the host profile does to the probe in flight, then the
\* continuation of workerScan; after the last port the timers left, the exit
PoolRestStep ==
    /\ PoolRunning /\ prest.state \in {"running", "posted"}
    /\ IF prest.state = "running" /\ prest.probe.sendCb = "pending"
       THEN prest' = PoolAfter(prest, Len(PoolProbesOf(prest)),
                               PoolUdpOnSend(prest.probe, FALSE))
                  /\ UNCHANGED pacc
       ELSE IF prest.state = "running" /\ prest.probe.result = NoWrite
       THEN prest' = PoolAfter(prest, Len(PoolProbesOf(prest)),
                       IF ppc = "TCP"
                       THEN IF penv = "silent" THEN PoolTcpOnTimeout(prest.probe)
                            ELSE PoolTcpOnError(prest.probe, "ECONNREFUSED")
                       ELSE IF penv = "silent" THEN PoolUdpOnTimer(prest.probe)
                            ELSE PoolUdpOnError(prest.probe, "ECONNREFUSED"))
                  /\ UNCHANGED pacc
       ELSE IF prest.state = "running"
       THEN /\ prest' = PoolContinue(prest, popt, ppc)
            /\ pacc' = IF prest'.state = "posted"
                       THEN PoolAssign(pacc, prest', popt) ELSE pacc
       ELSE IF PoolTimerDue(prest)
       THEN prest' = PoolFireTimer(prest) /\ UNCHANGED pacc
       ELSE prest' = [prest EXCEPT !.state = "exited"] /\ UNCHANGED pacc
    /\ UNCHANGED <<mvars, wvars, cvars, xvars, popt, penv, ppc, plast,
                   presults>>

\* a worker has thrown: its 'error' event has no listener in portScan
PoolWorkerError ==
    /\ PoolRunning
    /\ plast.state = "crashed" \/ prest.state = "crashed"
    /\ ppc' = "crashed"
    /\ UNCHANGED <<mvars, wvars, cvars, xvars, popt, penv, plast, prest, pacc,
                   presults>>

\* await Promise.all(... worker.on('exit', resolve)) is over: results[proto] =
\* protocolResults, then the UDP pass or the return
PoolPassDone ==
    /\ PoolRunning
    /\ plast.state = "exited"
    /\ prest.state \in {"exited", "none"}
    /\ presults' = [presults EXCEPT ![ppc] = pacc]
    /\ IF ppc = "TCP" /\ HasUdp(popt.protocol)
       THEN /\ ppc' = "UDP"
            /\ scanWithProtocol(popt, "UDP")
       ELSE /\ ppc' = "returned"
            /\ UNCHANGED <<plast, prest, pacc>>
    /\ UNCHANGED <<mvars, wvars, cvars, xvars, popt, penv>>

PoolOptions ==
    [startPort : {1}, endPort : 1..MaxPoolPorts, protocol : Protocols]

PoolInit ==
    /\ EngineIdle
    /\ WorkerIdle
    /\ ClientIdle
    /\ ExportIdle
    /\ popt \in PoolOptions
    /\ penv \in Profiles
    /\ ppc = "idle"
    /\ plast = PoolNoWorker
    /\ prest = PoolNoWorker
    /\ pacc = EmptyMap
    /\ presults = [TCP |-> EmptyMap, UDP |-> EmptyMap]

PoolNext ==
    \/ PoolCall
    \/ PoolTcpConnect
    \/ PoolTcpTimeout
    \/ PoolTcpError
    \/ PoolUdpMessage
    \/ PoolUdpError
    \/ PoolUdpTimer
    \/ PoolUdpSend
    \/ PoolLastContinue
    \/ PoolLastExit
    \/ PoolRestStep
    \/ PoolWorkerError
    \/ PoolPassDone

PoolSpec == PoolInit /\ [][PoolNext]_vars

-----------------------------------------------------------------------------
(* The three scanners side by side *)

\* what a probe can observe of the port
Observations == {"connected", "refused", "timed out", "response"}

\* the status the batch engine's scanPort records for an observation
BatchStatus(proto, ob) ==
    LET t == TcpStart("TCP")
        u == UdpOnListening(UdpStart("UDP", "ok").p)
    IN  IF proto = "TCP"
        THEN CASE ob = "connected" -> TcpOnConnect(t).w
               [] ob = "refused" -> TcpOnError(t, "ECONNREFUSED").w
               [] OTHER -> TcpOnTimeout(t).w
        ELSE CASE ob = "response" -> UdpOnMessage(u, TargetAddress, TargetAddress).w
               [] ob = "refused" -> UdpOnError(u, "ECONNREFUSED").w
               [] OTHER -> UdpOnTimeout(u).w

\* the status the worker script's scanPort resolves with for an observation
\* (it has no 'message' handler: a response leaves the probe to its timeout)
ScriptStatus(proto, ob) ==
    LET w == WorkerStart(proto)
    IN  IF proto = "TCP"
        THEN CASE ob = "connected" -> WorkerTcpOnClose(WorkerTcpOnConnect(w)).result
               [] ob = "refused" ->
                      WorkerTcpOnClose(WorkerTcpOnError(w, "ECONNREFUSED")).result
               [] OTHER -> WorkerTcpOnClose(WorkerTcpOnTimeout(w)).result
        ELSE CASE ob = "refused" -> WorkerUdpOnError(w, "ECONNREFUSED").result
               [] OTHER -> WorkerUdpOnTimeout(w).result

\* the observation behind the first event of a pool probe
PoolObservation(q) ==
    CASE q.first = "connect" -> "connected"
      [] q.first = "ECONNREFUSED" -> "refused"
      [] q.first = "timeout" -> "timed out"
      [] q.first = "message" -> "response"
      [] OTHER -> "other"

\* C26: the three scanners record the same status for the same observation:
\* a probe of the worker pool that has resolved on connected, refused, timed
\* out (TCP) or response, port unreachable, timed out (UDP) has the status the
\* batch engine and the worker script record for that observation.
C26_SameStatusInAllScanners ==
    \A W \in {plast, prest} :
        (W.state = "running" /\ W.probe.result # NoWrite
            /\ PoolObservation(W.probe) \in Observations) =>
            /\ W.probe.result = BatchStatus(ppc, PoolObservation(W.probe))
            /\ W.probe.result = ScriptStatus(ppc, PoolObservation(W.probe))

-----------------------------------------------------------------------------
(* The worker pool: sockets and slices *)

\* the sockets of the workers of a record that are open
PoolOpenOf(W) ==
    W.count * Cardinality({idx \in 1..Len(PoolProbesOf(W)) :
                              PoolProbesOf(W)[idx].sock = "open"})
PoolOpenSockets == PoolOpenOf(plast) + PoolOpenOf(prest)

\* the worker threads that are alive
PoolAlive(W) == IF W.state \in {"running", "posted"} THEN W.count ELSE 0

\* C27: in the worker pool at most 10 probe sockets are open at any time: at
\* most 10 workers are started for a protocol, a worker has at most one socket
\* open (it closes the socket of a probe before it starts the next probe), and
\* the UDP pass starts only when every TCP worker has exited.
C27_PoolSocketsBounded ==
    [][/\ PoolOpenSockets' <= MaxWorkers
       /\ plast'.count + prest'.count <= MaxWorkers
       /\ \A W \in {plast', prest'} : PoolOpenOf(W) <= W.count
       /\ (plast'.k # plast.k /\ ppc' = ppc) =>
             \A idx \in 1..Len(PoolProbesOf(plast)) :
                 PoolProbesOf(plast)[idx].sock # "open"
       /\ (ppc = "TCP" /\ ppc' = "UDP") =>
             PoolAlive(plast) + PoolAlive(prest) = 0
      ]_vars

\* ten workers have a socket open at the same time
C27_Witness ==
    /\ PoolOpenSockets = MaxWorkers
    /\ ppc = "UDP"
    /\ popt.protocol = "BOTH"
    /\ Cardinality(Started(popt)) = MaxWorkers
    /\ DOMAIN presults.TCP = 1..MaxWorkers

\* the ports of the slice of worker w, as a set
SliceSet(o, w) == {workerPorts(o, w)[m] : m \in 1..Len(workerPorts(o, w))}

\* the workers of the record have been created and none of their callbacks
\* has run
PoolJustStarted(W) ==
    /\ W.state = "running"
    /\ W.k = 1
    /\ W.probe.first = "none"
    /\ W.probe.sendCb # "done"

\* C28: the worker pool gives every port of the range to exactly one worker:
\* the slices of the workers that are started are runs of consecutive ports,
\* pairwise disjoint, their union is the whole range, none is empty, and at
\* most 10 workers are started.
C28_SlicesPartitionTheRange ==
    (PoolRunning /\ PoolJustStarted(plast)
        /\ (prest.state = "none" \/ PoolJustStarted(prest))) =>
        LET S == Started(popt)
        IN  /\ PoolWorkersOf(plast) \cup PoolWorkersOf(prest) = S
            /\ PoolWorkersOf(plast) \cap PoolWorkersOf(prest) = {}
            /\ Cardinality(S) <= MaxWorkers
            /\ \A w \in S :
                  /\ workerPorts(popt, w) # <<>>
                  /\ \A m \in 1..(Len(workerPorts(popt, w)) - 1) :
                        workerPorts(popt, w)[m + 1] = workerPorts(popt, w)[m] + 1
                  /\ w \in PoolWorkersOf(prest) =>
                        Len(workerPorts(popt, w)) = Len(workerPorts(popt, 0))
            /\ \A v, w \in S : v # w => SliceSet(popt, v) \cap SliceSet(popt, w) = {}
            /\ UNION {SliceSet(popt, w) : w \in S} = popt.startPort..popt.endPort

\* a scan of 11 ports: slices of 2 ports, the last slice has 1 port and four
\* loop indices get no worker
C28_Witness ==
    /\ PoolRunning
    /\ PoolJustStarted(plast)
    /\ PoolJustStarted(prest)
    /\ Len(PoolPortsSeq(popt)) = MaxWorkers + 1
    /\ plast.first = 5
    /\ Len(workerPorts(popt, plast.first)) = 1
    /\ prest.count = 5
    /\ workerPorts(popt, 6) = <<>>

-----------------------------------------------------------------------------
(* Closing a datagram socket once *)

\* C29: no UDP probe closes its socket more than once, in any scanner: the
\* batch engine, the worker script and the worker pool call close() at most
\* once on the socket of a probe.
C29_SocketClosedOnce ==
    /\ \A x \in Probes : x.u.closes <= 1
    /\ \A p \in DOMAIN wprobe : wprobe[p].closes <= 1
    /\ \A W \in {plast, prest} : \A idx \in 1..Len(PoolProbesOf(W)) :
          PoolProbesOf(W)[idx].closes <= 1

-----------------------------------------------------------------------------
(* Datagrams from other hosts *)

\* UDP probes of live ports that are bound and not yet resolved
InFlightUdp == {p \in DOMAIN udp : udp[p].sock = "open" /\ udp[p].bound
                                    /\ ~udp[p].isResolved}

\* C30: in the batch engine a datagram whose source address differs from the
\* target IP never resolves a UDP probe and never produces status Open: the
\* 'message' handler leaves a probe in flight as it is and writes nothing, and
\* a probe in flight is resolved only by a datagram from the target (the only
\* source of Open), by a socket or send error, or by its own timeout.
C30_ForeignDatagramIgnored ==
    [][\A p \in InFlightUdp :
          /\ \A address \in Addresses :
                address # opt.targetIp =>
                    UdpOnMessage(udp[p], address, opt.targetIp) = Keep(udp[p])
          /\ udp'[p].isResolved =>
                /\ udp'[p].first \in {"message", "timeout", "sendError"}
                                        \cup UdpErrorCodes
                /\ udp'[p].first = "message" <=> results'.UDP[p] = "Open"
                /\ udp'[p].first = "message" =>
                      /\ FromTarget(TargetAddress, opt.targetIp)
                      /\ udp'[p] = UdpOnMessage(udp[p], opt.targetIp,
                                                opt.targetIp).p
          /\ ~udp'[p].isResolved => p \notin Written("UDP")]_vars

\* a probe against the target address is bound and in flight, both of its
\* datagrams are sent, and a datagram can arrive on its socket from either
\* address
C30_Witness ==
    /\ opt.targetIp = TargetAddress
    /\ OtherAddress # opt.targetIp
    /\ \E p \in InFlightUdp : udp[p].sent = maxRetries
    /\ ENABLED LiveUdpMessage
====
